---- MODULE Spec2Model ----
(***************************************************************************)
(* upim-contact: the filter (query) language and its evaluation.           *)
(*                                                                         *)
(* Text is a sequence of one-character strings.  Offsets are the 0-based   *)
(* byte offsets of the Rust source (all modelled text is ASCII), so        *)
(* Slice(s, a, b) is &s[a..b].  An Option<usize> is an integer, None       *)
(* being -1.  A Result is a record with an "ok" field; a panic (an abort   *)
(* of the process) is the error "panic".                                   *)
(***************************************************************************)
EXTENDS Integers, Sequences, FiniteSets, TLC

VARIABLES given, src, fn, res, contact, cond, verdict, args, opts, a_note

vars == <<given, src, fn, res, contact, cond, verdict, args, opts, a_note>>

----------------------------------------------------------------------------
(* Results *)

Ok(v) == [ok |-> TRUE, v |-> v]
Err(e) == [ok |-> FALSE, err |-> e]
Panic == Err("panic")
None == -1
NotRun == Err("not run")

----------------------------------------------------------------------------
(* The string primitives of the standard library that the parser uses *)

Slice(s, a, b) == SubSeq(s, a + 1, b)

IsWhitespace(c) == c \in {" ", "\t"}

RECURSIVE trim_start(_)
trim_start(s) ==
    IF s # <<>> /\ IsWhitespace(Head(s)) THEN trim_start(Tail(s)) ELSE s

RECURSIVE trim_end(_)
trim_end(s) ==
    IF s # <<>> /\ IsWhitespace(s[Len(s)])
    THEN trim_end(SubSeq(s, 1, Len(s) - 1))
    ELSE s

trim(s) == trim_start(trim_end(s))

LowerCase == << "a", "b", "c", "d", "e", "f", "g", "h", "i", "j", "k", "l", "m",
                "n", "o", "p", "q", "r", "s", "t", "u", "v", "w", "x", "y", "z" >>
UpperCase == << "A", "B", "C", "D", "E", "F", "G", "H", "I", "J", "K", "L", "M",
                "N", "O", "P", "Q", "R", "S", "T", "U", "V", "W", "X", "Y", "Z" >>

UpperOf(c) ==
    IF \E i \in DOMAIN LowerCase : LowerCase[i] = c
    THEN UpperCase[CHOOSE i \in DOMAIN LowerCase : LowerCase[i] = c]
    ELSE c

LowerOf(c) ==
    IF \E i \in DOMAIN UpperCase : UpperCase[i] = c
    THEN LowerCase[CHOOSE i \in DOMAIN UpperCase : UpperCase[i] = c]
    ELSE c

RECURSIVE to_ascii_uppercase(_)
to_ascii_uppercase(s) ==
    IF s = <<>> THEN <<>> ELSE <<UpperOf(Head(s))>> \o to_ascii_uppercase(Tail(s))

RECURSIVE to_lowercase(_)
to_lowercase(s) ==
    IF s = <<>> THEN <<>> ELSE <<LowerOf(Head(s))>> \o to_lowercase(Tail(s))

starts_with(s, p) == Len(p) <= Len(s) /\ SubSeq(s, 1, Len(p)) = p

\* str::find(char): the offset of the first occurrence, or None.
find(s, c) ==
    IF \E i \in 1..Len(s) : s[i] = c
    THEN (CHOOSE i \in 1..Len(s) : s[i] = c /\ \A j \in 1..(i - 1) : s[j] # c) - 1
    ELSE None

\* str::split_once(char)
split_once(s, c) ==
    LET i == find(s, c)
    IN  IF i = None
        THEN [found |-> FALSE, l |-> <<>>, r |-> <<>>]
        ELSE [found |-> TRUE, l |-> Slice(s, 0, i), r |-> Slice(s, i + 1, Len(s))]

\* str::split(char), collected
RECURSIVE split(_, _)
split(s, c) ==
    LET i == find(s, c)
    IN  IF i = None THEN <<s>>
        ELSE <<Slice(s, 0, i)>> \o split(Slice(s, i + 1, Len(s)), c)

Digits == {"0", "1", "2", "3", "4", "5", "6", "7", "8", "9"}

AllDigits(s) == \A i \in 1..Len(s) : s[i] \in Digits

\* The decimal literals str::parse::<f64>/<f32> accepts: an optional sign, then
\* digits with at most one '.', at least one digit in all.  (Exponents and the
\* words inf, infinity and nan are accepted by the library too; no text of the
\* model holds an 'e' after a digit or one of these words.)
IsDecimal(s) ==
    LET u == IF s # <<>> /\ s[1] \in {"+", "-"} THEN Tail(s) ELSE s
        d == find(u, ".")
    IN  IF d = None
        THEN u # <<>> /\ AllDigits(u)
        ELSE /\ AllDigits(Slice(u, 0, d))
             /\ AllDigits(Slice(u, d + 1, Len(u)))
             /\ Len(u) >= 2

----------------------------------------------------------------------------
(* filter.rs: lexical primitives *)

Quotes == {"'", "\""}

\* find_any_str: the leftmost offset at which any pattern starts; at one
\* offset the patterns are tried in the order given.
PatternsAt(s, i, patterns) ==
    {k \in 1..Len(patterns) : starts_with(Slice(s, i, Len(s)), patterns[k])}

\* find_any_str returning the rightmost offset instead of the leftmost.
find_any_str_rightmost(s, patterns) ==
    LET hits == {i \in 0..(Len(s) - 1) : PatternsAt(s, i, patterns) # {}}
    IN  IF hits = {}
        THEN [found |-> FALSE, i |-> None, p |-> <<>>]
        ELSE LET i == CHOOSE h \in hits : \A g \in hits : h >= g
                 ks == PatternsAt(s, i, patterns)
                 k == CHOOSE x \in ks : \A y \in ks : x <= y
             IN  [found |-> TRUE, i |-> i, p |-> patterns[k]]

find_any_str(s, patterns) ==
    LET hits == {i \in 0..(Len(s) - 1) : PatternsAt(s, i, patterns) # {}}
    IN  IF hits = {}
        THEN [found |-> FALSE, i |-> None, p |-> <<>>]
        ELSE LET i == CHOOSE h \in hits : \A g \in hits : h <= g
                 ks == PatternsAt(s, i, patterns)
                 k == CHOOSE x \in ks : \A y \in ks : x <= y
             IN  [found |-> TRUE, i |-> i, p |-> patterns[k]]

\* find_any: the index of the first character that is one of `chars`.
find_any(s, chars) ==
    IF \E i \in 1..Len(s) : s[i] \in chars
    THEN (CHOOSE i \in 1..Len(s) :
              s[i] \in chars /\ \A j \in 1..(i - 1) : s[j] \notin chars) - 1
    ELSE None

Disallowed ==
    << <<" ", "W", "H", "E", "R", "E", " ">>,
       <<" ", "A", "N", "D", " ">>,
       <<" ", "O", "R", " ">>,
       <<"\"">>,
       <<"'">> >>

field_name_is_valid(field) ==
    ~ find_any_str(to_ascii_uppercase(field), Disallowed).found

\* is_quoted panics (the None arm) on a string that is one quote character.
is_quoted_panics(s) == Len(s) = 1 /\ s[1] \in Quotes

is_quoted(s) == Len(s) >= 2 /\ s[1] \in Quotes /\ s[Len(s)] = s[1]

\* The loop of get_inner_expression: k is the 1-based position of the next
\* character; the result is the loop's i and level at its exit.
RECURSIVE paren_scan(_, _, _)
paren_scan(s, k, level) ==
    IF k > Len(s)
    THEN [i |-> k - 2, level |-> level]
    ELSE LET l2 == level + (IF s[k] = "(" THEN 1 ELSE IF s[k] = ")" THEN -1 ELSE 0)
         IN  IF l2 = 0
             THEN [i |-> k - 1, level |-> 0]
             ELSE paren_scan(s, k + 1, l2)

\* &s[1..=(i-1) as usize] is out of range when i < 1.
get_inner_expression(s) ==
    LET r == paren_scan(s, 1, 0)
    IN  IF r.level = 0
        THEN IF r.i < 1
             THEN Panic
             ELSE [ok |-> TRUE, len |-> r.i + 1, inner |-> Slice(s, 1, r.i)]
        ELSE Err("Not a parenthesized expression")

read_field(s) ==
    IF s = <<>> THEN Err("Expected a field name")
    ELSE LET start_idx == IF s[1] \in Quotes \cup {"("} THEN 1 ELSE 0
             end_char == IF s[1] \in Quotes THEN s[1]
                         ELSE IF s[1] = "(" THEN ")" ELSE " "
             f == find(Slice(s, 1, Len(s)), end_char)
             end_idx == IF f = None THEN None ELSE f + 1
         IN  IF end_idx = None THEN Err("Invalid field string")
             ELSE IF field_name_is_valid(Slice(s, start_idx, end_idx))
                  THEN [ok |-> TRUE, len |-> end_idx + start_idx,
                        field |-> Slice(s, start_idx, end_idx)]
                  ELSE Err("Field name is not valid")

read_fields_quotes_uncounted(s) ==
    IF s = <<>> THEN [ok |-> TRUE, len |-> 0, fields |-> <<>>]
    ELSE LET start_idx == IF s[1] \in Quotes THEN 1 ELSE 0
             end_char == IF s[1] \in Quotes THEN s[1] ELSE " "
             f == find(Slice(s, 1, Len(s)), end_char)
             end_idx == IF f # None THEN f + 1
                        ELSE IF end_char = " " THEN Len(s) ELSE None
         IN  IF end_idx = None THEN Err("Expected closing quote in field list")
             ELSE LET names == split(Slice(s, start_idx, end_idx), ",")
                  IN  IF \A k \in 1..Len(names) : field_name_is_valid(names[k])
                      THEN [ok |-> TRUE, len |-> end_idx, fields |-> names]
                      ELSE Err("Invalid field name")

read_fields(s) ==
    IF s = <<>> THEN [ok |-> TRUE, len |-> 0, fields |-> <<>>]
    ELSE LET start_idx == IF s[1] \in Quotes THEN 1 ELSE 0
             end_char == IF s[1] \in Quotes THEN s[1] ELSE " "
             f == find(Slice(s, 1, Len(s)), end_char)
             end_idx == IF f # None THEN f + 1
                        ELSE IF end_char = " " THEN Len(s) ELSE None
         IN  IF end_idx = None THEN Err("Expected closing quote in field list")
             ELSE LET names == split(Slice(s, start_idx, end_idx), ",")
                  IN  IF \A k \in 1..Len(names) : field_name_is_valid(names[k])
                      THEN [ok |-> TRUE, len |-> end_idx + start_idx,
                            fields |-> names]
                      ELSE Err("Invalid field name")

read_variable(s) ==
    LET idx == find_any(s, {" ", "="})
    IN  IF idx = None THEN Err("Expected variable assignment")
        ELSE [ok |-> TRUE, len |-> idx + 1, var |-> trim(Slice(s, 0, idx))]

----------------------------------------------------------------------------
(* filter.rs: operators *)

FilterOp == {"EqualTo", "LessThan", "LessEq", "GreaterThan", "GreaterEq", "Not"}

FilterOp_from_str(s) ==
    CASE s = <<"=">> -> Ok("EqualTo")
      [] s = <<"<">> -> Ok("LessThan")
      [] s = <<"<", "=">> -> Ok("LessEq")
      [] s = <<">">> -> Ok("GreaterThan")
      [] s = <<">", "=">> -> Ok("GreaterEq")
      [] s = <<"N", "O", "T">> -> Ok("Not")
      [] OTHER -> Err("Invalid string for Filter operator")

FilterOp_fmt_reversed(op) ==
    CASE op = "EqualTo" -> <<"=">>
      [] op = "LessThan" -> <<"<">>
      [] op = "LessEq" -> <<"=", "<">>
      [] op = "GreaterThan" -> <<">">>
      [] op = "GreaterEq" -> <<"=", ">">>
      [] op = "Not" -> <<"N", "O", "T">>

FilterOp_fmt(op) ==
    CASE op = "EqualTo" -> <<"=">>
      [] op = "LessThan" -> <<"<">>
      [] op = "LessEq" -> <<"<", "=">>
      [] op = "GreaterThan" -> <<">">>
      [] op = "GreaterEq" -> <<">", "=">>
      [] op = "Not" -> <<"N", "O", "T">>

read_op(s) ==
    LET sp == split_once(s, " ")
    IN  IF ~ sp.found THEN Err("Invalid operator clause")
        ELSE LET o == FilterOp_from_str(sp.l)
             IN  IF ~ o.ok THEN o
                 ELSE [ok |-> TRUE, len |-> Len(sp.l), op |-> o.v]

----------------------------------------------------------------------------
(* filter.rs: functions *)

Left(v) == [side |-> "Left", v |-> v]
Right(v) == [side |-> "Right", v |-> v]
Ref(var, target) == [t |-> "Ref", var |-> var, target |-> target]
Split(var, field, sep) == [t |-> "Split", var |-> var, field |-> field, sep |-> sep]
Regex(field, pattern) == [t |-> "Regex", field |-> field, pattern |-> pattern]

kwREGEX == <<"R", "E", "G", "E", "X", "(">>
kwREF == <<"R", "E", "F", "(">>
kwSPLIT == <<"S", "P", "L", "I", "T", "(">>

\* split_str[0] and split_str[1] are read (left to right, short-circuiting)
\* only when split_str.len() != 3; the Ok arm reads split_str[1].
parse_split_function(s, var) ==
    LET sp == split_once(s, ",")
    IN  IF ~ sp.found THEN Err("InvalidArguments")
        ELSE IF ~ field_name_is_valid(sp.l) THEN Err("InvalidArguments")
        ELSE LET split_str == trim_start(sp.r)
             IN  IF Len(split_str) < 2 THEN Panic
                 ELSE IF /\ Len(split_str) # 3
                         /\ split_str[1] # split_str[2]
                         /\ split_str[1] \in Quotes
                      THEN Err("InvalidArguments")
                      ELSE Ok(Split(var, sp.l, split_str[2]))

Function_regex(s) ==
    LET g == get_inner_expression(Slice(s, 5, Len(s)))
    IN  IF ~ g.ok THEN Err("InvalidArguments")
        ELSE LET a == split_once(trim(g.inner), ",")
                 expr == trim_start(a.r)
             IN  IF ~ a.found THEN Err("InvalidArguments")
                 ELSE IF is_quoted_panics(expr) THEN Panic
                 ELSE IF ~ is_quoted(expr) THEN Err("InvalidArguments")
                 ELSE Ok(Regex(trim_end(a.l), Slice(expr, 1, Len(expr) - 1)))

\* The clause after "variable =": s[7..s.len()] is out of range when
\* s.len() is 6.
Function_call(s, var) ==
    IF Len(s) < 6 THEN Err("UnknownFunction")
    ELSE IF Len(s) < 7 THEN Panic
    ELSE LET f == find(Slice(s, 7, Len(s)), ")")
             end_idx == IF f = None THEN None ELSE f + 7
         IN  IF to_ascii_uppercase(Slice(s, 0, 4)) = kwREF
             THEN IF end_idx = None THEN Err("MissingClosingParenthesis")
                  ELSE IF end_idx > 10 /\ Slice(s, 4, 10) = kwSPLIT
                  THEN LET func == parse_split_function(Slice(s, 10, end_idx), <<>>)
                       IN  IF func.ok THEN Ok(Ref(var, Right(func.v))) ELSE func
                  ELSE LET field == Slice(s, 4, end_idx)
                       IN  IF field_name_is_valid(field)
                           THEN Ok(Ref(var, Left(field)))
                           ELSE Err("InvalidArguments")
             ELSE IF to_ascii_uppercase(Slice(s, 0, 6)) = kwSPLIT
             THEN IF end_idx = None THEN Err("MissingClosingParenthesis")
                  ELSE parse_split_function(Slice(s, 6, end_idx), var)
             ELSE Err("UnknownFunction")

Function_from_str(s) ==
    IF Len(s) > 6 /\ Slice(s, 0, 6) = kwREGEX THEN Function_regex(s)
    ELSE LET rv == read_variable(s)
             s1 == trim_start(Slice(s, rv.len, Len(s)))
             ro == read_op(s1)
             s2 == trim_start(Slice(s1, ro.len, Len(s1)))
         IN  IF ~ rv.ok THEN Err("NoVariableAssignment")
             ELSE IF ~ ro.ok THEN Err("NoVariableAssignment")
             ELSE IF ro.op # "EqualTo" THEN Err("InvalidOperator")
             ELSE Function_call(s2, rv.var)

----------------------------------------------------------------------------
(* filter.rs: conditions *)

All == [t |-> "All"]
Filter(field, op, value) == [t |-> "Filter", field |-> field, op |-> op, value |-> value]
Function(f) == [t |-> "Function", f |-> f]
And(l, r) == [t |-> "And", l |-> l, r |-> r]
Or(l, r) == [t |-> "Or", l |-> l, r |-> r]

kwAND == <<"A", "N", "D", " ">>
kwOR == <<"O", "R", " ">>
kwEMPTY == <<"E", "M", "P", "T", "Y">>
kwWHERE == <<"W", "H", "E", "R", "E">>

\* Condition_comparison without the EMPTY keyword.
Condition_comparison_without_empty(s) ==
    LET rf == read_field(s)
        s1 == trim_start(Slice(s, rf.len, Len(s)))
        ro == read_op(s1)
        s2 == trim_start(Slice(s1, ro.len, Len(s1)))
        v == s2
    IN  IF ~ rf.ok THEN rf
        ELSE IF ~ ro.ok THEN ro
        ELSE IF is_quoted_panics(v) THEN Panic
        ELSE IF is_quoted(v)
             THEN IF ro.op \notin {"EqualTo", "Not"}
                  THEN Err("Cannot make comparison with string")
                  ELSE Ok(Filter(rf.field, ro.op, Slice(v, 1, Len(v) - 1)))
        ELSE IF IsDecimal(v) THEN Ok(Filter(rf.field, ro.op, v))
        ELSE Err("The string literal is not quoted")

\* The field/operator/value comparison that Condition::from_str falls back
\* to when the text does not look like a function call.
Condition_comparison(s) ==
    LET rf == read_field(s)
        s1 == trim_start(Slice(s, rf.len, Len(s)))
        ro == read_op(s1)
        s2 == trim_start(Slice(s1, ro.len, Len(s1)))
        v == IF s2 = kwEMPTY THEN <<"'", "'">> ELSE s2
    IN  IF ~ rf.ok THEN rf
        ELSE IF ~ ro.ok THEN ro
        ELSE IF is_quoted_panics(v) THEN Panic
        ELSE IF is_quoted(v)
             THEN IF ro.op \notin {"EqualTo", "Not"}
                  THEN Err("Cannot make comparison with string")
                  ELSE Ok(Filter(rf.field, ro.op, Slice(v, 1, Len(v) - 1)))
        ELSE IF IsDecimal(v) THEN Ok(Filter(rf.field, ro.op, v))
        ELSE Err("The string literal is not quoted")

Condition_leaf(s) ==
    LET f == Function_from_str(s)
    IN  IF f.ok THEN Ok(Function(f.v))
        ELSE IF f.err \in {"UnknownFunction", "InvalidOperator"}
        THEN Condition_comparison(s)
        ELSE f

RECURSIVE Condition_from_str(_)
Condition_from_str(str) ==
    LET s == trim_start(str)
        paren == starts_with(s, <<"(">>)
        g == get_inner_expression(s)
        inner == Condition_from_str(g.inner)
        len == IF paren THEN g.len ELSE 0
        s1 == trim_start(Slice(s, len, Len(s)))
        hit == find_any_str(to_ascii_uppercase(s1), <<kwAND, kwOR>>)
        lhs == trim_end(Slice(s1, 0, hit.i))
        rhs == trim_start(Slice(s1, hit.i + Len(hit.p), Len(s1)))
        cond1 == IF paren THEN inner ELSE Condition_from_str(lhs)
        cond2 == Condition_from_str(rhs)
    IN  IF paren /\ ~ g.ok THEN g
        ELSE IF paren /\ ~ inner.ok THEN inner
        ELSE IF len = Len(s)
             THEN IF paren THEN inner ELSE Err("Invalid condition string")
        ELSE IF hit.found
             THEN IF ~ cond1.ok THEN cond1
                  ELSE IF ~ cond2.ok THEN cond2
                  ELSE IF hit.p = kwAND THEN Ok(And(cond1.v, cond2.v))
                  ELSE Ok(Or(cond1.v, cond2.v))
        ELSE Condition_leaf(s1)

----------------------------------------------------------------------------
(* filter.rs: queries *)

Query(select, condition) == [select |-> select, condition |-> condition]

Filter_from_str(s) ==
    LET rf == read_fields(s)
        s1 == trim_start(Slice(s, rf.len, Len(s)))
        s2 == trim_start(Slice(s1, 5, Len(s1)))
        c == Condition_from_str(s2)
    IN  IF ~ rf.ok THEN rf
        ELSE IF rf.len = Len(trim_end(s)) THEN Ok(Query(rf.fields, All))
        ELSE IF Len(s1) < 6 \/ to_ascii_uppercase(Slice(s1, 0, 5)) # kwWHERE
             THEN Err("Expected WHERE clause")
        ELSE IF ~ c.ok THEN c
        ELSE Ok(Query(rf.fields, c.v))

----------------------------------------------------------------------------
(* contact.rs: a Contact and the evaluation of a Condition against it *)

Some(v) == [some |-> TRUE, v |-> v]
Nothing == [some |-> FALSE]

strDefault == <<"d", "e", "f", "a", "u", "l", "t">>
strName == <<"N", "a", "m", "e">>
NameKeys == {strName, <<"F", "u", "l", "l", " ", "N", "a", "m", "e">>, <<"G", "i", "v", "e", "n", " ", "N", "a", "m", "e">>, <<"F", "i", "r", "s", "t", " ", "N", "a", "m", "e">>,
             <<"F", "a", "m", "i", "l", "y", " ", "N", "a", "m", "e">>, <<"L", "a", "s", "t", " ", "N", "a", "m", "e">>}

\* Note::get_attribute: the map of a note is a function from its keys.
get_attribute(note, key) ==
    IF key \in DOMAIN note.map THEN Some(note.map[key]) ELSE Nothing

\* MultiMap::insert appends to the vector of the key.
info_insert(info, group, note) ==
    IF group \in DOMAIN info
    THEN [info EXCEPT ![group] = Append(@, note)]
    ELSE info @@ (group :> <<note>>)

\* MultiMap::get is the first value stored under the key.
info_get(info, group) ==
    IF group \in DOMAIN info THEN Some(info[group][1]) ELSE Nothing

\* The loop of Contact::new over the notes of the file: a note with a tag
\* opens the group of that tag (without its first character, lowercased),
\* a note without one continues the group before it.
RECURSIVE group_notes(_, _, _)
group_notes(notes, last_group, info) ==
    IF notes = <<>> THEN info
    ELSE LET note == Head(notes)
             g == IF note.tags # <<>>
                  THEN to_lowercase(Tail(note.tags[1]))
                  ELSE last_group
         IN  group_notes(Tail(notes), g, info_insert(info, g, note))

Contact_name_is_some(info) ==
    \E k \in NameKeys : get_attribute(info[strDefault][1], k).some

Contact_new(notes) ==
    LET info == group_notes(notes, strDefault, <<>>)
    IN  IF Contact_name_is_some(info)
        THEN Ok([info |-> info])
        ELSE Err("No name provided in contact")

get_field_from(c, group, name) ==
    LET g == info_get(c.info, to_lowercase(group))
    IN  IF g.some THEN get_attribute(g.v, name) ELSE Nothing

groups(c) == DOMAIN c.info

DigitChars == <<"0", "1", "2", "3", "4", "5", "6", "7", "8", "9">>
DigitValue(c) == (CHOOSE n \in 1..10 : DigitChars[n] = c) - 1

RECURSIVE DigitsValue(_)
DigitsValue(s) ==
    IF s = <<>> THEN 0
    ELSE DigitsValue(SubSeq(s, 1, Len(s) - 1)) * 10 + DigitValue(s[Len(s)])

RECURSIVE Pow10(_)
Pow10(n) == IF n = 0 THEN 1 ELSE 10 * Pow10(n - 1)

\* str::parse::<f32>: the value is the fraction num/den.  The literals of the
\* model have at most six significant digits, which an f32 tells apart and
\* keeps in order.
parse_f32(s) ==
    IF ~ IsDecimal(s) THEN Err("ParseFloatError")
    ELSE LET neg == s[1] = "-"
             u == IF s[1] \in {"+", "-"} THEN Tail(s) ELSE s
             d == find(u, ".")
             int == IF d = None THEN u ELSE Slice(u, 0, d)
             frac == IF d = None THEN <<>> ELSE Slice(u, d + 1, Len(u))
             mag == DigitsValue(int) * Pow10(Len(frac)) + DigitsValue(frac)
         IN  [ok |-> TRUE, num |-> IF neg THEN 0 - mag ELSE mag,
              den |-> Pow10(Len(frac))]

f32_lt(a, b) == a.num * b.den < b.num * a.den
f32_le(a, b) == a.num * b.den <= b.num * a.den

Verdict(b) == [abort |-> FALSE, v |-> b]
Abort == [abort |-> TRUE, v |-> FALSE]

\* The ordering arms with the operands of the comparison exchanged.
matches_ordering_swapped(op, attr, value) ==
    LET a == parse_f32(attr)
        v == parse_f32(value)
    IN  IF ~ a.ok THEN FALSE
        ELSE IF ~ v.ok THEN FALSE
        ELSE CASE op = "LessThan" -> f32_lt(v, a)
               [] op = "LessEq" -> f32_le(v, a)
               [] op = "GreaterThan" -> f32_lt(a, v)
               [] op = "GreaterEq" -> f32_le(a, v)

\* The four ordering arms of Contact::matches: both texts are parsed, the
\* stored value first; a text that is no number gives false.
matches_ordering(op, attr, value) ==
    LET a == parse_f32(attr)
        v == parse_f32(value)
    IN  IF ~ a.ok THEN FALSE
        ELSE IF ~ v.ok THEN FALSE
        ELSE CASE op = "LessThan" -> f32_lt(a, v)
               [] op = "LessEq" -> f32_le(a, v)
               [] op = "GreaterThan" -> f32_lt(v, a)
               [] op = "GreaterEq" -> f32_le(v, a)

\* The Filter arm without the `Not` case of an absent field.
matches_filter_absent_is_false(c, field, op, value) ==
    LET sp == split_once(field, ":")
        group == IF sp.found THEN sp.l ELSE strDefault
        name == IF sp.found THEN sp.r ELSE field
        info == info_get(c.info, to_lowercase(group))
        attr == get_attribute(info.v, name)
    IN  IF info.some
        THEN IF ~ attr.some THEN FALSE
             ELSE CASE op = "EqualTo" -> attr.v = value
                    [] op = "Not" -> attr.v # value
                    [] OTHER -> matches_ordering(op, attr.v, value)
        ELSE FALSE

\* The Filter arm looking the group up as written, not lowercased.
matches_filter_case_sensitive(c, field, op, value) ==
    LET sp == split_once(field, ":")
        group == IF sp.found THEN sp.l ELSE strDefault
        name == IF sp.found THEN sp.r ELSE field
        info == info_get(c.info, group)
        attr == get_attribute(info.v, name)
    IN  IF info.some
        THEN IF ~ attr.some THEN op = "Not"
             ELSE CASE op = "EqualTo" -> attr.v = value
                    [] op = "Not" -> attr.v # value
                    [] OTHER -> matches_ordering(op, attr.v, value)
        ELSE FALSE

\* The Filter arm of Contact::matches.
matches_filter(c, field, op, value) ==
    LET sp == split_once(field, ":")
        group == IF sp.found THEN sp.l ELSE strDefault
        name == IF sp.found THEN sp.r ELSE field
        info == info_get(c.info, to_lowercase(group))
        attr == get_attribute(info.v, name)
    IN  IF info.some
        THEN IF ~ attr.some THEN op = "Not"
             ELSE CASE op = "EqualTo" -> attr.v = value
                    [] op = "Not" -> attr.v # value
                    [] OTHER -> matches_ordering(op, attr.v, value)
        ELSE FALSE

\* Contact::matches; the Function arm is todo!(), which aborts.  && and ||
\* do not evaluate their right operand when the left one decides.
RECURSIVE matches(_, _)
matches(c, condition) ==
    CASE condition.t = "All" -> Verdict(TRUE)
      [] condition.t = "Filter" ->
            Verdict(matches_filter(c, condition.field, condition.op, condition.value))
      [] condition.t = "Function" -> Abort
      [] condition.t = "And" ->
            LET lhs == matches(c, condition.l)
            IN  IF lhs.abort THEN Abort
                ELSE IF ~ lhs.v THEN Verdict(FALSE)
                ELSE matches(c, condition.r)
      [] condition.t = "Or" ->
            LET lhs == matches(c, condition.l)
            IN  IF lhs.abort THEN Abort
                ELSE IF lhs.v THEN Verdict(TRUE)
                ELSE matches(c, condition.r)

----------------------------------------------------------------------------
(* upim-note: a Note, its header and its tags *)

Note_default == [tags |-> <<>>, map |-> <<>>, content |-> <<>>]

Tag(vs) == [t |-> "Tag", tags |-> vs]
KV(k, v) == [t |-> "KV", k |-> k, v |-> v]

\* str::split_inclusive('\n'): the lines, each with its newline.
RECURSIVE split_inclusive(_)
split_inclusive(s) ==
    LET i == find(s, "\n")
    IN  IF s = <<>> THEN <<>>
        ELSE IF i = None THEN <<s>>
        ELSE <<Slice(s, 0, i + 1)>> \o split_inclusive(Slice(s, i + 1, Len(s)))

RECURSIVE collect(_)
collect(lines) == IF lines = <<>> THEN <<>> ELSE Head(lines) \o collect(Tail(lines))

\* The loop of read_metadata_line over the words of a line of tags.
RECURSIVE read_tags(_, _)
read_tags(words, tags) ==
    IF words = <<>> THEN Ok(Tag(tags))
    ELSE LET tag == Head(words)
         IN  IF tag = <<>> THEN read_tags(Tail(words), tags)
             ELSE IF starts_with(tag, <<"@">>)
             THEN IF Len(tag) = 1 THEN Err("Empty tags are invalid.")
                  ELSE read_tags(Tail(words), Append(tags, tag))
             ELSE Err("Tag is missing the '@' symbol")

\* The two assert!s abort on a line without its newline.
read_metadata_line(l) ==
    IF ~ (Len(l) > 1) \/ l[Len(l)] # "\n" THEN Panic
    ELSE LET line == Slice(l, 0, Len(l) - 1)
         IN  IF starts_with(line, <<"@">>) THEN read_tags(split(line, " "), <<>>)
             ELSE IF starts_with(line, <<"[">>) /\ line[Len(line)] = "]"
             THEN LET inner == Slice(line, 1, Len(line) - 1)
                      kv == split_once(inner, ":")
                  IN  IF find_any(inner, {"[", "]"}) # None
                      THEN Err("Key-value pairs cannot contain '[' or ']'")
                      ELSE IF kv.found THEN Ok(KV(trim(kv.l), trim(kv.r)))
                      ELSE Err("Invalid key/value metadata line")
             ELSE Err("Invalid metadata object")

\* HashMap::insert; a map is a function from its keys.
map_insert(map, k, v) == [x \in DOMAIN map \cup {k} |-> IF x = k THEN v ELSE map[x]]

add_metadata(self, m) ==
    IF m.t = "Tag" THEN [self EXCEPT !.tags = self.tags \o m.tags]
    ELSE [self EXCEPT !.map = map_insert(self.map, m.k, m.v)]

\* The loop of Note::from_str over the lines that are left.
RECURSIVE read_header(_, _)
RECURSIVE then_metadata(_, _, _)
read_header(self, lines) ==
    IF lines = <<>> THEN Ok([self EXCEPT !.content = <<>>])
    ELSE IF Head(lines) = <<"\n">> THEN Ok([self EXCEPT !.content = collect(Tail(lines))])
    ELSE then_metadata(self, read_metadata_line(Head(lines)), Tail(lines))

then_metadata(self, m, lines) ==
    IF ~ m.ok THEN m ELSE read_header(add_metadata(self, m.v), lines)

Note_from_str(s) == read_header(Note_default, split_inclusive(s))

with_at(tag) == IF starts_with(tag, <<"@">>) THEN tag ELSE <<"@">> \o tag

contains(v, x) == \E k \in 1..Len(v) : v[k] = x

\* Iterator::position
position(v, x) ==
    IF contains(v, x)
    THEN (CHOOSE k \in 1..Len(v) : v[k] = x /\ \A j \in 1..(k - 1) : v[j] # x) - 1
    ELSE None

\* Vec::remove
remove(v, pos) == SubSeq(v, 1, pos) \o SubSeq(v, pos + 2, Len(v))

insert_tag(self, tag) ==
    IF ~ contains(self.tags, with_at(tag))
    THEN [self EXCEPT !.tags = Append(self.tags, with_at(tag))]
    ELSE self

remove_tag(self, tag) ==
    IF position(self.tags, tag) # None
    THEN [self EXCEPT !.tags = remove(self.tags, position(self.tags, tag))]
    ELSE self

\* What remove_tag returns.
removed_tag(self, tag) ==
    IF position(self.tags, tag) # None THEN Some(tag) ELSE Nothing

contains_tag(self, tag) == contains(self.tags, tag)

----------------------------------------------------------------------------
(* config.rs: validate_aliases *)

\* str::split(&str): the parts between the occurrences of the pattern, found
\* from the left without overlap.
RECURSIVE split_str_from(_, _, _)
split_str_from(s, pat, part) ==
    IF s = <<>> THEN <<part>>
    ELSE IF starts_with(s, pat)
    THEN <<part>> \o split_str_from(SubSeq(s, Len(pat) + 1, Len(s)), pat, <<>>)
    ELSE split_str_from(Tail(s), pat, Append(part, Head(s)))

split_str(s, pat) == split_str_from(s, pat, <<>>)

strip_prefix(s, p) ==
    IF starts_with(s, p) THEN Some(SubSeq(s, Len(p) + 1, Len(s))) ELSE Nothing

InvalidValue(errors) == [ok |-> FALSE, err |-> "InvalidValue", errors |-> errors]

InAlias(alias, e) == [alias |-> alias, err |-> e]

\* The errors gathered so far followed by the next ones; an abort of the
\* query parser aborts the validation.
then_errors(a, b) ==
    IF ~ a.ok THEN a ELSE IF ~ b.ok THEN b ELSE Ok(a.v \o b.v)

part_errors(alias, e) ==
    IF e.ok THEN Ok(<<>>)
    ELSE IF e = Panic THEN Panic
    ELSE Ok(<<InAlias(alias, e.err)>>)

validate_part(alias, part, filter) ==
    IF filter.some
    THEN part_errors(alias, Filter_from_str(trim_start(filter.v)))
    ELSE Ok(<<>>)

RECURSIVE validate_parts(_, _)
validate_parts(alias, parts) ==
    IF parts = <<>> THEN Ok(<<>>)
    ELSE then_errors(validate_part(alias, Head(parts), strip_prefix(Head(parts), <<"f", "i", "l", "t", "e", "r">>)),
                     validate_parts(alias, Tail(parts)))

RECURSIVE validate_each(_)
validate_each(aliases) ==
    IF aliases = <<>> THEN Ok(<<>>)
    ELSE then_errors(validate_parts(Head(aliases).alias,
                                    split_str(Head(aliases).commands, <<"-", "-">>)),
                     validate_each(Tail(aliases)))

errors_result(errors) ==
    IF ~ errors.ok THEN errors
    ELSE IF errors.v = <<>> THEN Ok(<<>>)
    ELSE InvalidValue(errors.v)

validate_aliases(aliases) == errors_result(validate_each(aliases))

----------------------------------------------------------------------------
(* args.rs: the options read from the command line *)

Search == [t |-> "Search"]
Alias(name) == [t |-> "Alias", name |-> name]
New(name) == [t |-> "New", name |-> name]
Edit(target) == [t |-> "Edit", target |-> target]

NoSort == [t |-> "NoSort"]
Ascending(field) == [t |-> "Ascending", field |-> field]
Descending(field) == [t |-> "Descending", field |-> field]

Options_default ==
    [cmd_or_alias |-> Search, alias_params |-> Nothing, collection |-> Nothing,
     conf_path |-> Nothing, filter |-> Nothing, limit |-> Nothing, sort |-> NoSort]

optC == <<"-", "C">>
optConf == <<"-", "-", "c", "o", "n", "f">>
optFilter == <<"-", "-", "f", "i", "l", "t", "e", "r">>
optLimit == <<"-", "-", "l", "i", "m", "i", "t">>
optSort == <<"-", "-", "s", "o", "r", "t", "-">>
cmdNew == <<"n", "e", "w">>
cmdEdit == <<"e", "d", "i", "t">>

enforce_len(arr, cnt) == Len(arr) >= cnt

\* str::parse::<u32>: an optional '+', then digits, the value within 32 bits.
\* The value is kept as its digits without leading zeros.
RECURSIVE strip_zeros(_)
strip_zeros(s) ==
    IF Len(s) > 1 /\ Head(s) = "0" THEN strip_zeros(Tail(s)) ELSE s

u32_MAX == <<"4", "2", "9", "4", "9", "6", "7", "2", "9", "5">>

\* a <= b for two digit texts of the same length
RECURSIVE digits_le(_, _)
digits_le(a, b) ==
    IF a = <<>> THEN TRUE
    ELSE IF Head(a) = Head(b) THEN digits_le(Tail(a), Tail(b))
    ELSE DigitValue(Head(a)) < DigitValue(Head(b))

parse_u32(s) ==
    LET u == IF s # <<>> /\ s[1] = "+" THEN Tail(s) ELSE s
        n == strip_zeros(u)
    IN  IF /\ u # <<>>
           /\ AllDigits(u)
           /\ Len(n) < Len(u32_MAX) \/ (Len(n) = Len(u32_MAX) /\ digits_le(n, u32_MAX))
        THEN Ok(n)
        ELSE Err("ParseIntError")

\* The select list without its repeated names, the first occurrence kept.
RECURSIVE Dedup(_)
Dedup(names) ==
    IF names = <<>> THEN <<>>
    ELSE LET rest == Dedup(SubSeq(names, 1, Len(names) - 1))
             last == names[Len(names)]
         IN  IF \E k \in 1..Len(rest) : rest[k] = last THEN rest
             ELSE Append(rest, last)

\* Query::merge_with, which is not part of the sources at hand: the two
\* conditions ANDed, the select lists concatenated and deduplicated.
merge_with(self, other) ==
    Query(Dedup(self.select \o other.select), And(self.condition, other.condition))

\* The --filter arm with the new filter replacing the one held.
filter_arm_keeps_last(filter, new_filter) ==
    IF ~ new_filter.ok THEN new_filter
    ELSE Ok(Some(new_filter.v))

\* The --filter arm: new_filter is the result of Query::from_str (the
\* from_str of filter.rs) on the argument.
filter_arm(filter, new_filter) ==
    IF ~ new_filter.ok THEN new_filter
    ELSE IF filter.some THEN Ok(Some(merge_with(filter.v, new_filter.v)))
    ELSE Ok(Some(new_filter.v))

\* The parameters of an alias: the arguments up to the first one that
\* starts with '-'.
RECURSIVE alias_params(_)
alias_params(rest) ==
    IF rest = <<>> \/ starts_with(rest[1], <<"-">>) THEN <<>>
    ELSE <<rest[1]>> \o alias_params(Tail(rest))

\* str::match_indices(char): the offsets of the occurrences, ascending.
RECURSIVE match_indices_from(_, _, _)
match_indices_from(s, c, k) ==
    IF k > Len(s) THEN <<>>
    ELSE (IF s[k] = c THEN <<k - 1>> ELSE <<>>) \o match_indices_from(s, c, k + 1)

match_indices(s, c) == match_indices_from(s, c, 1)

\* chars().take_while(|c| c.is_numeric())
RECURSIVE take_while_numeric(_)
take_while_numeric(s) ==
    IF s # <<>> /\ Head(s) \in Digits
    THEN <<Head(s)>> \o take_while_numeric(Tail(s))
    ELSE <<>>

usize_MAX ==
    <<"1", "8", "4", "4", "6", "7", "4", "4", "0", "7", "3", "7", "0", "9", "5", "5",
      "1", "6", "1", "5">>

\* str::parse::<usize> of a text of digits; the value is kept as its digits
\* without leading zeros.
parse_usize(num) ==
    LET n == strip_zeros(num)
    IN  IF num = <<>> THEN Err("ParseError")
        ELSE IF Len(n) < Len(usize_MAX) \/ (Len(n) = Len(usize_MAX) /\ digits_le(n, usize_MAX))
        THEN Ok(n)
        ELSE Err("ParseError")

\* num >= len, for a number kept as its digits and a length of a few digits
index_missing(n, len) == Len(n) > 9 \/ DigitsValue(n) >= len

MissingValue(n) == [ok |-> FALSE, err |-> "MissingValue", index |-> n]

\* The loop of substitute_alias over the offsets of '$' that are left.  At
\* offset 0 the index i-1 underflows: a build with overflow checks aborts,
\* a build without them wraps it around and chars().nth() finds nothing.
RECURSIVE substitute_loop(_, _, _, _, _, _, _)
substitute_loop(sargs, alias, indices, new_alias, idx, last, overflow_checks) ==
    IF indices = <<>>
    THEN Ok([count |-> idx, alias |-> new_alias \o Slice(alias, last, Len(alias))])
    ELSE LET i == Head(indices)
             digits == take_while_numeric(Slice(alias, i + 1, Len(alias)))
             num_len == Len(digits) + 1
             num == parse_usize(digits)
         IN  IF i = 0 /\ overflow_checks THEN Panic
             ELSE IF i > 0 /\ alias[i] = "\\"
             THEN substitute_loop(sargs, alias, Tail(indices), new_alias, idx, last,
                                  overflow_checks)
             ELSE IF ~ num.ok THEN num
             ELSE IF index_missing(num.v, Len(sargs)) THEN MissingValue(num.v)
             ELSE substitute_loop(sargs, alias, Tail(indices),
                                  new_alias \o Slice(alias, last, i)
                                      \o sargs[DigitsValue(num.v) + 1],
                                  idx + 1, i + num_len, overflow_checks)

substitute_alias(sargs, alias, overflow_checks) ==
    substitute_loop(sargs, alias, match_indices(alias, "$"), <<>>, 0, 0, overflow_checks)

\* tests::args_chain_filters: its arguments and the filter the repository
\* asserts new_from_arguments returns for them.
args_chain_filters_args ==
    << optFilter, <<"N", "a", "m", "e", ",", "P", "h", "o", "n", "e", " ", "W", "H", "E", "R", "E", " ", "N", "a", "m", "e", " ", "=", " ", "'", "S", "o", "m", "e", "b", "o", "d", "y", "'">>,
       optFilter, <<"N", "a", "m", "e", ",", "A", "d", "d", "r", "e", "s", "s", " ", "W", "H", "E", "R", "E", " ", "N", "a", "m", "e", " ", "=", " ", "'", "N", "o", "b", "o", "d", "y", "'">> >>

args_chain_filters_expected ==
    Some(Query(<<<<"N", "a", "m", "e">>>>,
               And(Filter(<<"N", "a", "m", "e">>, "EqualTo", <<"S", "o", "m", "e", "b", "o", "d", "y">>),
                   Filter(<<"N", "a", "m", "e">>, "EqualTo", <<"N", "o", "b", "o", "d", "y">>))))

----------------------------------------------------------------------------
(* The texts handed to the parsers.  `given` describes how a text is put    *)
(* together (its leaves, conjunctions, field names), `src` is the text.     *)

MaxConj == 2

Quoted(q, v) == q \o v \o q

\* A comparison "field op 'value'".
LeafText(l) ==
    l.field \o <<" ">> \o FilterOp_fmt(l.op) \o <<" ">> \o Quoted(<<"'">>, l.value)

LeafFields == {<<"a">>, <<"N", "a", "m", "e">>}
LeafValues == {<<>>, <<"b">>, <<"a", "b", "c", "d">>, <<"a", "b", "c", "d", "e">>, <<")">>}
Leaves == [field : LeafFields, op : {"EqualTo", "Not"}, value : LeafValues]

\* The leaves that texts of several comparisons are made of.
ProbeLeaves ==
    { [field |-> <<"a">>, op |-> "EqualTo", value |-> <<"b">>],
      [field |-> <<"N", "a", "m", "e">>, op |-> "Not", value |-> <<>>],
      [field |-> <<"a">>, op |-> "EqualTo", value |-> <<"a", "b", "c", "d">>],
      [field |-> <<"a">>, op |-> "EqualTo", value |-> <<")">>],
      [field |-> <<"N", "a", "m", "e">>, op |-> "EqualTo", value |-> <<"a", "b", "c", "d", "e">>] }

ConjText(c) == IF c = "And" THEN <<" ", "A", "N", "D", " ">> ELSE <<" ", "O", "R", " ">>

Paren(s) == <<"(">> \o s \o <<")">>

\* "L1 c1 L2 c2 ... Ln"
RECURSIVE FlatText(_, _)
FlatText(leaves, conjs) ==
    IF Len(leaves) = 1 THEN LeafText(leaves[1])
    ELSE LeafText(leaves[1]) \o ConjText(conjs[1])
             \o FlatText(Tail(leaves), Tail(conjs))

SelectLists == { <<<<"N", "a", "m", "e">>>>, <<<<"N", "a", "m", "e">>, <<"P", "h", "o", "n", "e">>>>, <<<<"a">>, <<"b">>, <<"c">>>>,
                 <<<<"A", " ", "F", "i", "e", "l", "d">>, <<"B", " ", "F", "i", "e", "l", "d">>>> }
Trails == {<<>>, <<" ">>, <<" ", " ">>, <<"\t">>}

RECURSIVE JoinComma(_)
JoinComma(names) ==
    IF Len(names) = 1 THEN names[1]
    ELSE names[1] \o <<",">> \o JoinComma(Tail(names))

HasSpace(names) == \E k \in 1..Len(names) : find(names[k], " ") # None

Given(form, leaves, conjs, names, quote, trail) ==
    [form |-> form, leaves |-> leaves, conjs |-> conjs, names |-> names,
     quote |-> quote, trail |-> trail]

FlatInputs ==
    { Given("flat", <<l>>, <<>>, <<>>, <<>>, <<>>) : l \in Leaves }
    \cup UNION { { Given("flat", ls, cs, <<>>, <<>>, <<>>) :
                     ls \in [1..(n + 1) -> ProbeLeaves],
                     cs \in [1..n -> {"And", "Or"}] } : n \in 1..MaxConj }

GroupInputs ==
    { Given("paren", <<l>>, <<>>, <<>>, <<>>, <<>>) : l \in Leaves }
    \cup { Given(f, ls, <<c>>, <<>>, <<>>, <<>>) :
             f \in {"each", "whole"}, ls \in [1..2 -> ProbeLeaves],
             c \in {"And", "Or"} }
    \cup { Given(f, ls, cs, <<>>, <<>>, <<>>) :
             f \in {"right", "left"}, ls \in [1..3 -> ProbeLeaves],
             cs \in [1..2 -> {"And", "Or"}] }

FieldListInputs ==
    { Given("fields", <<>>, <<>>, ns, q, tr) :
        ns \in SelectLists, q \in {<<>>} \cup {<<c>> : c \in Quotes}, tr \in Trails }
    \cup { Given("empty", <<>>, <<>>, <<>>, <<>>, <<>>) }

\* A field list followed by text that is not WHERE and a condition.
BadTails ==
    { <<"W", "H", "E", "R", "E">>, <<"w", "h", "e", "r", "e">>, <<"W", "H", "E", "R", "E", " ">>, <<"x">>, <<"a", " ", "=", " ", "'", "b", "'">>, <<"W", "H", "E", "R", " ", "a", " ", "=", " ", "'", "b", "'">>,
      <<"A", "N", "D", " ", "a", " ", "=", " ", "'", "b", "'">>, <<"H", "E", "R", "E", " ", "a", " ", "=", " ", "'", "b", "'">>, <<"W", "H", "E", "R", "E", " ", "a">>, <<"W", "H", "E", "R", "E", " ", "a", " ", "=">>, <<"W", "H", "E", "R", "E", " ", "=", " ", "'", "b", "'">>,
      <<"W", "H", "E", "R", "E", " ", "a", " ", "=", " ", "b">>, <<"W", "H", "E", "R", "E", " ", "a", " ", "=", " ", "'", "b">>, <<"W", "H", "E", "R", "E", " ", "a", " ", "=", " ", "'">>, <<"W", "H", "E", "R", "E", " ", "a", " ", "=", " ", "'", "b", "'", " ", "A", "N", "D", " ">>,
      <<"W", "H", "E", "R", "E", " ", "(", "a", " ", "=", " ", "'", "b", "'">>, <<"W", "H", "E", "R", "E", " ", "(", ")">>, <<"W", "H", "E", "R", "E", " ", "a", " ", "<", " ", "'", "b", "'">> }

TailInputs ==
    { Given("tail", <<>>, <<>>, ns, q, t) :
        ns \in SelectLists, q \in {<<>>} \cup {<<c>> : c \in Quotes}, t \in BadTails }

\* A comparison "field op value", the value written as it stands: between
\* quotes (quote is the quote character) or bare (quote is empty).
ValueFields == { <<"a">>, <<"N", "a", "m", "e">>, <<"E", "m", "p", "l", "o", "y", "e", "r", ":", "N", "a", "m", "e">> }
QuotedBodies == { <<>>, <<"b">>, <<"1", "2">>, <<"a", "b", "c", "d", "e">>, <<"S", "o", "m", "e", " ", "B", "o", "d", "y">> }
NumberTexts == { <<"1">>, <<"1", "2">>, <<"1", ".", "5">>, <<"-", "5">>, <<"0", ".", "2", "5">>, <<"1", "2", "3", "4", "5", "6">>, <<"1", "2", "3", "4", "5", "6", "7", "8">> }
OtherTexts == { <<"b">>, <<"a", "b", "c">>, <<"a", "b", "c", "d", "e", "f">>, <<"'">>, <<"'", "b">>, <<"b", "'">>, <<"1", "x">> }

ValueInputs ==
    { Given("value", <<[field |-> f, op |-> o, value |-> v]>>, <<>>, <<>>, <<c>>, <<>>) :
        f \in ValueFields, o \in FilterOp, v \in QuotedBodies, c \in Quotes }
    \cup { Given("value", <<[field |-> f, op |-> o, value |-> v]>>, <<>>, <<>>, <<>>, <<>>) :
        f \in ValueFields, o \in FilterOp,
        v \in NumberTexts \cup OtherTexts \cup {kwEMPTY} }

\* A query with one keyword, written in upper, lower or mixed case.
Recase(kw, style) ==
    CASE style = "upper" -> kw
      [] style = "lower" -> to_lowercase(kw)
      [] style = "mixed" -> <<Head(kw)>> \o to_lowercase(Tail(kw))

KeywordTexts ==
    { [kw |-> "WHERE", pre |-> <<"N", "a", "m", "e", " ">>, word |-> <<"W", "H", "E", "R", "E">>, post |-> <<" ", "a", " ", "=", " ", "'", "b", "'">>],
      [kw |-> "AND", pre |-> <<"N", "a", "m", "e", " ", "W", "H", "E", "R", "E", " ", "a", " ", "=", " ", "'", "b", "'", " ">>, word |-> <<"A", "N", "D">>, post |-> <<" ", "c", " ", "=", " ", "'", "d", "'">>],
      [kw |-> "OR", pre |-> <<"N", "a", "m", "e", " ", "W", "H", "E", "R", "E", " ", "a", " ", "=", " ", "'", "b", "'", " ">>, word |-> <<"O", "R">>, post |-> <<" ", "c", " ", "=", " ", "'", "d", "'">>],
      [kw |-> "NOT", pre |-> <<"N", "a", "m", "e", " ", "W", "H", "E", "R", "E", " ", "a", " ">>, word |-> <<"N", "O", "T">>, post |-> <<" ", "'", "b", "'">>],
      [kw |-> "EMPTY", pre |-> <<"N", "a", "m", "e", " ", "W", "H", "E", "R", "E", " ", "a", " ", "=", " ">>, word |-> <<"E", "M", "P", "T", "Y">>, post |-> <<>>],
      [kw |-> "REF", pre |-> <<"N", "a", "m", "e", " ", "W", "H", "E", "R", "E", " ", "s", " ", "=", " ">>, word |-> <<"R", "E", "F">>, post |-> <<"(", "S", "p", "o", "u", "s", "e", ")">>],
      [kw |-> "SPLIT", pre |-> <<"N", "a", "m", "e", " ", "W", "H", "E", "R", "E", " ", "c", " ", "=", " ">>, word |-> <<"S", "P", "L", "I", "T">>, post |-> <<"(", "C", "h", "i", "l", "d", "r", "e", "n", ",", " ", "'", ",", "'", ")">>],
      [kw |-> "REF SPLIT", pre |-> <<"N", "a", "m", "e", " ", "W", "H", "E", "R", "E", " ", "c", " ", "=", " ", "R", "E", "F", "(">>, word |-> <<"S", "P", "L", "I", "T">>, post |-> <<"(", "C", "h", "i", "l", "d", "r", "e", "n", ",", " ", "'", ",", "'", ")", ")">>],
      [kw |-> "REGEX", pre |-> <<"N", "a", "m", "e", " ", "W", "H", "E", "R", "E", " ">>, word |-> <<"R", "E", "G", "E", "X">>, post |-> <<"(", "N", "a", "m", "e", ",", " ", "'", "P", ".", "*", "'", ")">>] }

KeywordInputs ==
    { Given("keyword", <<k>>, <<st>>, <<>>, <<>>, <<>>) :
        k \in KeywordTexts, st \in {"upper", "lower", "mixed"} }

\* "v = REF(F)"
RefVars == { <<"s">>, <<"s", "p">>, <<"s", "p", "o", "u", "s", "e">> }
RefFields == { <<"a">>, <<"a", "b">>, <<"a", "b", "c">>, <<"S", "p", "o", "u", "s", "e">>, <<"E", "m", "p", "l", "o", "y", "e", "r", ":", "N", "a", "m", "e">>, <<"F", "u", "l", "l", " ", "N", "a", "m", "e">> }

RefInputs ==
    { Given("ref", <<[var |-> v, field |-> f]>>, <<>>, <<>>, <<>>, <<>>) :
        v \in RefVars, f \in RefFields }

\* "v = SPLIT(F, S)": the separator argument S is an opening quote (or none),
\* a body, and a closing quote (or none).
SplitFields == { <<"a">>, <<"a", "b">>, <<"C", "h", "i", "l", "d", "r", "e", "n">> }
SepBodies == { <<>>, <<",">>, <<";">>, <<" ">>, <<"x">>, <<"x", "y">> }
MaybeQuote == {<<>>} \cup {<<c>> : c \in Quotes}

SplitInputs ==
    { Given("split", <<[var |-> v, field |-> f, open |-> o, body |-> b, close |-> c]>>,
            <<>>, <<>>, <<>>, <<>>) :
        v \in {<<"c">>, <<"k", "i", "d">>}, f \in SplitFields, o \in MaybeQuote, b \in SepBodies,
        c \in MaybeQuote }

\* "REGEX(F, P)": with or without the comma, the pattern argument as for
\* SPLIT, with or without the closing parenthesis.
RegexBodies == { <<>>, <<"P", ".", "*">>, <<"(", "a", "|", "b", ")">>, <<"\\", ")">> }

RegexInputs ==
    { Given("regex", <<[field |-> f, comma |-> cm, open |-> o, body |-> b, close |-> c,
                        paren |-> p]>>, <<>>, <<>>, <<>>, <<>>) :
        f \in {<<"a">>, <<"N", "a", "m", "e">>}, cm \in BOOLEAN, o \in MaybeQuote, b \in RegexBodies,
        c \in MaybeQuote, p \in BOOLEAN }

\* A comparison F = 'V' whose field name or value holds the letters of a
\* conjunction at the end of a word.
WordFields == { <<"C", "o", "l", "o", "r">>, <<"D", "o", "c", "t", "o", "r">>, <<"B", "r", "a", "n", "d">>, <<"C", "o", "l", "o", "u", "r">>, <<"N", "a", "m", "e">> }
WordValues == { <<"r", "e", "d">>, <<"C", "o", "m", "m", "a", "n", "d", " ", "l", "i", "n", "e">>, <<"f", "o", "r", " ", "y", "o", "u">>, <<"C", "o", "m", "m", "a", "n", "d", "s", " ", "l", "i", "n", "e">>, <<"o", "r">> }

WordInputs ==
    { Given("word", <<[field |-> f, op |-> "EqualTo", value |-> v]>>, <<>>, <<>>, <<>>, <<>>) :
        f \in WordFields, v \in WordValues }

\* A comparison 'F' = 'V', the field name between quotes.
QuotedFields == { <<"a">>, <<"a", "b">>, <<"N", "a", "m", "e">>, <<"P", "h", "o", "n", "e">>, <<"E", "m", "p", "l", "o", "y", "e", "r", ":", "N", "a", "m", "e">>, <<"F", "u", "l", "l", " ", "N", "a", "m", "e">>, <<"G", "i", "v", "e", "n", " ", "N", "a", "m", "e">> }
QuotedFieldValues == { <<"b">>, <<"P", "a", "t">> }

QuotedFieldInputs ==
    { Given("quoted", <<[field |-> f, op |-> "EqualTo", value |-> v]>>, <<>>, <<>>, <<c>>, <<>>) :
        f \in QuotedFields, v \in QuotedFieldValues, c \in Quotes }

\* A group in parentheses, then text (the trail), then a conjunction or
\* none, then a comparison.
AfterLeaves ==
    { [field |-> <<"a">>, op |-> "EqualTo", value |-> <<"b">>],
      [field |-> <<"c">>, op |-> "EqualTo", value |-> <<"d">>],
      [field |-> <<"N", "a", "m", "e">>, op |-> "Not", value |-> <<>>] }

AfterTrails == { <<>>, <<"x">>, <<"x", " ", "=", " ", "'", "y", "'">> }

AfterInputs ==
    { Given("after", <<l1, l2>>, <<c>>, <<>>, <<>>, tr) :
        l1 \in AfterLeaves, l2 \in AfterLeaves, c \in {"And", "Or", "none"},
        tr \in AfterTrails }

AfterText(g) ==
    Paren(LeafText(g.leaves[1]))
        \o (IF g.trail # <<>> THEN <<" ">> \o g.trail ELSE <<>>)
        \o (IF g.conjs[1] # "none" THEN ConjText(g.conjs[1]) ELSE <<" ">>)
        \o LeafText(g.leaves[2])

\* An unquoted field list ends at the first space: a name with a space in it
\* needs the quoted form.
ValidInput(g) == g.form \in {"fields", "tail"} /\ g.quote = <<>> => ~ HasSpace(g.names)

ParseInputs ==
    { g \in FlatInputs \cup GroupInputs \cup FieldListInputs \cup TailInputs
             \cup ValueInputs \cup KeywordInputs \cup RefInputs \cup SplitInputs
             \cup RegexInputs \cup WordInputs \cup QuotedFieldInputs \cup AfterInputs :
        ValidInput(g) }

\* The argument a SPLIT or REGEX text is given: quote, body, quote.
ArgText(l) == l.open \o l.body \o l.close

Render(g) ==
    LET L == g.leaves[1]
        X == LeafText(g.leaves[1])
        Y == LeafText(g.leaves[2])
        Z == LeafText(g.leaves[3])
    IN  CASE g.form = "flat" -> FlatText(g.leaves, g.conjs)
          [] g.form = "paren" -> Paren(X)
          [] g.form = "each" -> Paren(X) \o ConjText(g.conjs[1]) \o Paren(Y)
          [] g.form = "whole" -> Paren(X \o ConjText(g.conjs[1]) \o Y)
          [] g.form = "right" ->
                Paren(X \o ConjText(g.conjs[1]) \o Paren(Y \o ConjText(g.conjs[2]) \o Z))
          [] g.form = "left" ->
                Paren(Paren(X \o ConjText(g.conjs[1]) \o Y) \o ConjText(g.conjs[2]) \o Z)
          [] g.form = "fields" -> Quoted(g.quote, JoinComma(g.names)) \o g.trail
          [] g.form = "empty" -> <<>>
          [] g.form = "tail" ->
                Quoted(g.quote, JoinComma(g.names)) \o <<" ">> \o g.trail
          [] g.form = "value" ->
                L.field \o <<" ">> \o FilterOp_fmt(L.op) \o <<" ">>
                    \o Quoted(g.quote, L.value)
          [] g.form = "keyword" -> L.pre \o Recase(L.word, g.conjs[1]) \o L.post
          [] g.form = "ref" ->
                L.var \o <<" ", "=", " ">> \o kwREF \o L.field \o <<")">>
          [] g.form = "split" ->
                L.var \o <<" ", "=", " ">> \o kwSPLIT \o L.field \o <<",", " ">>
                    \o ArgText(L) \o <<")">>
          [] g.form = "regex" ->
                kwREGEX \o L.field \o (IF L.comma THEN <<",", " ">> ELSE <<" ">>)
                    \o ArgText(L) \o (IF L.paren THEN <<")">> ELSE <<>>)
          [] g.form = "word" -> LeafText(L)
          [] g.form = "quoted" ->
                Quoted(g.quote, L.field) \o <<" ">> \o FilterOp_fmt(L.op) \o <<" ">>
                    \o Quoted(<<"'">>, L.value)
          [] g.form = "after" -> AfterText(g)
          [] g.form = "none" -> <<>>

NoGiven == Given("none", <<>>, <<>>, <<>>, <<>>, <<>>)

----------------------------------------------------------------------------
(* The contacts and the conditions handed to Contact::matches *)

MaxNotes == 3

Note(tags, map) == [tags |-> tags, map |-> map]

strNum == <<"N", "u", "m">>

\* The first note of a file: its tags are the contact's, so it has none.
FirstNotes ==
    { Note(<<>>, strName :> <<"P", "a", "t">>),
      Note(<<>>, (strName :> <<"P", "a", "t">>) @@ (strNum :> <<"1", "2", "3">>)),
      Note(<<>>, (strName :> <<"P", "a", "t">>) @@ (strNum :> <<"a", "b", "c">>)) }

MoreNotes ==
    { Note(tg, m) :
        tg \in {<<>>, <<<<"@", "E", "m", "p", "l", "o", "y", "e", "r">>>>},
        m \in { strName :> <<"A", "c", "m", "e">>, strNum :> <<"2", "0", "0">> } }

NoteLists ==
    UNION { { <<f>> \o rest : f \in FirstNotes, rest \in [1..n -> MoreNotes] } :
              n \in 0..(MaxNotes - 1) }

Contacts == { Contact_new(ns).v : ns \in { x \in NoteLists : Contact_new(x).ok } }

FilterFields ==
    { <<"N", "a", "m", "e">>, <<"N", "u", "m">>, <<"M", "i", "s", "s", "i", "n", "g">>, <<"E", "m", "p", "l", "o", "y", "e", "r", ":", "N", "a", "m", "e">>, <<"e", "m", "p", "l", "o", "y", "e", "r", ":", "N", "u", "m">>,
      <<"E", "M", "P", "L", "O", "Y", "E", "R", ":", "M", "i", "s", "s", "i", "n", "g">>, <<"o", "t", "h", "e", "r", ":", "N", "a", "m", "e">> }
FilterValues == { <<"P", "a", "t">>, <<"A", "c", "m", "e">>, <<"1", "2", "3">>, <<"2", "0", "0">>, <<"1", ".", "5">>, <<"-", "5">>, <<"a", "b", "c">> }

FilterLeaves == { Filter(f, o, v) : f \in FilterFields, o \in FilterOp, v \in FilterValues }

FunctionLeaves ==
    { Function(Regex(<<"N", "a", "m", "e">>, <<"P", ".", "*">>)),
      Function(Regex(<<"M", "i", "s", "s", "i", "n", "g">>, <<".", "*">>)),
      Function(Ref(<<"s">>, Left(<<"N", "a", "m", "e">>))),
      Function(Split(<<"c">>, <<"N", "a", "m", "e">>, ",")) }

\* The leaves that And and Or trees are made of.
ProbeConds ==
    { All,
      Filter(<<"N", "a", "m", "e">>, "EqualTo", <<"P", "a", "t">>),
      Filter(<<"N", "a", "m", "e">>, "EqualTo", <<"A", "c", "m", "e">>),
      Filter(<<"o", "t", "h", "e", "r", ":", "N", "a", "m", "e">>, "Not", <<"P", "a", "t">>),
      Function(Regex(<<"N", "a", "m", "e">>, <<"P", ".", "*">>)) }

Pairs(S, T) == { And(l, r) : l \in S, r \in T } \cup { Or(l, r) : l \in S, r \in T }

Conditions ==
    {All} \cup FilterLeaves \cup FunctionLeaves
    \cup Pairs(ProbeConds, ProbeConds)
    \cup Pairs(Pairs(ProbeConds, ProbeConds), ProbeConds)
    \cup Pairs(ProbeConds, Pairs(ProbeConds, ProbeConds))

NoContact == [info |-> <<>>]
NoVerdict == Verdict(FALSE)

----------------------------------------------------------------------------
(* Parsing: a text is handed to Condition::from_str or to Filter::from_str *)

InitParse ==
    /\ given \in ParseInputs
    /\ src = Render(given)
    /\ fn = "none"
    /\ res = NotRun
    /\ contact = NoContact
    /\ cond = All
    /\ verdict = NoVerdict
    /\ args = <<>>
    /\ opts = Options_default
    /\ a_note = Note_default

ParseCondition ==
    /\ fn = "none"
    /\ fn' = "condition"
    /\ res' = Condition_from_str(src)
    /\ UNCHANGED <<given, src, contact, cond, verdict, args, opts, a_note>>

ParseQuery ==
    /\ fn = "none"
    /\ fn' = "query"
    /\ res' = Filter_from_str(src)
    /\ UNCHANGED <<given, src, contact, cond, verdict, args, opts, a_note>>

NextParse == ParseCondition \/ ParseQuery

SpecParse == InitParse /\ [][NextParse]_vars

----------------------------------------------------------------------------
(* Evaluation: read_contacts hands each contact to Contact::matches *)

InitMatch ==
    /\ contact \in Contacts
    /\ cond \in Conditions
    /\ verdict = NoVerdict
    /\ fn = "none"
    /\ given = NoGiven
    /\ src = <<>>
    /\ res = NotRun
    /\ args = <<>>
    /\ opts = Options_default
    /\ a_note = Note_default

Matches ==
    /\ fn = "none"
    /\ fn' = "matches"
    /\ verdict' = matches(contact, cond)
    /\ UNCHANGED <<given, src, res, contact, cond, args, opts, a_note>>

NextMatch == Matches

SpecMatch == InitMatch /\ [][NextMatch]_vars

----------------------------------------------------------------------------
(* The command line: Options::new_from_arguments reads the arguments, one   *)
(* option, command or alias at each pass of its loop                        *)

MaxFilters == 3

QueryTexts ==
    { <<"N", "a", "m", "e", ",", "P", "h", "o", "n", "e", " ", "W", "H", "E", "R", "E", " ", "N", "a", "m", "e", " ", "=", " ", "'", "S", "o", "m", "e", "b", "o", "d", "y", "'">>,
      <<"N", "a", "m", "e", ",", "A", "d", "d", "r", "e", "s", "s", " ", "W", "H", "E", "R", "E", " ", "N", "a", "m", "e", " ", "=", " ", "'", "N", "o", "b", "o", "d", "y", "'">>,
      <<"'", "P", "h", "o", "n", "e", "'", " ", "W", "H", "E", "R", "E", " ", "a", " ", "=", " ", "'", "b", "'", " ", "O", "R", " ", "c", " ", "=", " ", "'", "d", "'">>,
      <<"N", "a", "m", "e">>,
      <<"N", "a", "m", "e", ",", "N", "a", "m", "e", " ", "W", "H", "E", "R", "E", " ", "P", "h", "o", "n", "e", " ", "N", "O", "T", " ", "E", "M", "P", "T", "Y">>,
      <<"N", "a", "m", "e", " ", "W", "H", "E", "R", "E">> }

FilterItems == { <<optFilter, q>> : q \in QueryTexts }

OtherItems ==
    { <<optC, <<"w", "o", "r", "k">>>>, <<optConf, <<"/", "d", "e", "v", "/", "n", "u", "l", "l">>>>, <<optLimit, <<"2">>>>, <<optLimit, <<"0">>>>,
      <<optLimit, <<"x">>>>, <<optLimit, <<"4", "2", "9", "4", "9", "6", "7", "2", "9", "6">>>>, <<<<"-", "-", "s", "o", "r", "t", "-", "a">>, <<"N", "a", "m", "e">>>>, <<<<"-", "-", "s", "o", "r", "t", "-", "d">>, <<"N", "a", "m", "e">>>>,
      <<<<"-", "-", "s", "o", "r", "t", "-", "b">>, <<"N", "a", "m", "e">>>>, <<cmdNew, <<"P", "a", "t">>>>, <<cmdEdit, <<"P", "a", "t">>>>, <<<<"f", "i", "n", "d">>>>,
      <<<<"f", "i", "n", "d">>, <<"P", "a", "t">>>>, <<<<"f", "i", "n", "d">>, <<"P", "a", "t">>, <<"A", "c", "m", "e">>>>, <<optSort, <<"N", "a", "m", "e">>>> }

\* An option or command without its value, at the end of the line.
DanglingItems ==
    { <<>>, <<optC>>, <<optConf>>, <<optFilter>>, <<optLimit>>, <<<<"-", "-", "s", "o", "r", "t", "-", "a">>>>,
      <<cmdNew>>, <<cmdEdit>> }

ArgItemLists ==
    UNION { [1..n -> FilterItems] : n \in 1..MaxFilters }
    \cup UNION { { items \o <<d>> : items \in [1..n -> FilterItems \cup OtherItems],
                                   d \in DanglingItems } : n \in 0..2 }

RECURSIVE Flatten(_)
Flatten(items) ==
    IF items = <<>> THEN <<>> ELSE Head(items) \o Flatten(Tail(items))

InitArgs ==
    /\ given \in { [form |-> "args", items |-> items] : items \in ArgItemLists }
    /\ args = Flatten(given.items)
    /\ opts = Options_default
    /\ a_note = Note_default
    /\ fn = "args"
    /\ res = NotRun
    /\ src = <<>>
    /\ contact = NoContact
    /\ cond = All
    /\ verdict = NoVerdict

\* One pass of the loop reads an option and consumes n arguments.
Consume(o, n) ==
    /\ opts' = o
    /\ args' = SubSeq(args, n + 1, Len(args))
    /\ UNCHANGED <<fn, res>>

\* A pass of the loop returns an error.
Fail(msg) ==
    /\ fn' = "done"
    /\ res' = Err(msg)
    /\ UNCHANGED <<args, opts>>

InLoop(first) == fn = "args" /\ args # <<>> /\ first

ArgCollection ==
    /\ InLoop(args[1] = optC)
    /\ IF ~ enforce_len(args, 2) THEN Fail("Missing collection name")
       ELSE Consume([opts EXCEPT !.collection = Some(args[2])], 2)
    /\ UNCHANGED <<given, src, contact, cond, verdict, a_note>>

\* Whether the path exists is for the file system to say.
ArgConf ==
    /\ InLoop(args[1] = optConf)
    /\ IF ~ enforce_len(args, 2) THEN Fail("Missing configuration path")
       ELSE \E exists \in BOOLEAN :
                IF exists THEN Consume([opts EXCEPT !.conf_path = Some(args[2])], 2)
                ELSE Fail("The path does not exist")
    /\ UNCHANGED <<given, src, contact, cond, verdict, a_note>>

ArgFilter ==
    /\ InLoop(args[1] = optFilter)
    /\ IF ~ enforce_len(args, 2) THEN Fail("No query filter provided")
       ELSE \E filter \in {filter_arm(opts.filter, Filter_from_str(args[2]))} :
                IF ~ filter.ok THEN Fail(filter.err)
                ELSE Consume([opts EXCEPT !.filter = filter.v], 2)
    /\ UNCHANGED <<given, src, contact, cond, verdict, a_note>>

ArgLimit ==
    /\ InLoop(args[1] = optLimit)
    /\ IF ~ enforce_len(args, 2) THEN Fail("Expected limit value")
       ELSE LET v == parse_u32(args[2])
                limit == IF v.ok /\ v.v # <<"0">> THEN Some(v.v) ELSE Nothing
            IN  Consume([opts EXCEPT !.limit = limit], 2)
    /\ UNCHANGED <<given, src, contact, cond, verdict, a_note>>

IsOption(a) == a \in {optC, optConf, optFilter, optLimit}

IsSort(a) == starts_with(a, optSort) /\ Len(a) > 7

ArgSort ==
    /\ InLoop(~ IsOption(args[1]) /\ IsSort(args[1]))
    /\ IF ~ enforce_len(args, 2) THEN Fail("Missing the field to sort by")
       ELSE IF args[1][8] = "a"
            THEN Consume([opts EXCEPT !.sort = Ascending(args[2])], 2)
       ELSE IF args[1][8] = "d"
            THEN Consume([opts EXCEPT !.sort = Descending(args[2])], 2)
       ELSE Fail("Unknown sort method")
    /\ UNCHANGED <<given, src, contact, cond, verdict, a_note>>

ArgNew ==
    /\ InLoop(~ IsOption(args[1]) /\ ~ IsSort(args[1]) /\ args[1] = cmdNew)
    /\ IF ~ enforce_len(args, 2)
       THEN Fail("Expected a contact name for the new command")
       ELSE Consume([opts EXCEPT !.cmd_or_alias = New(args[2])], 2)
    /\ UNCHANGED <<given, src, contact, cond, verdict, a_note>>

\* Whether the argument is a path that exists is for the file system to say.
\* This arm does not move past its arguments.
ArgEdit ==
    /\ InLoop(~ IsOption(args[1]) /\ ~ IsSort(args[1]) /\ args[1] = cmdEdit)
    /\ IF ~ enforce_len(args, 2)
       THEN Fail("Expected a contact name or path for the edit command")
       ELSE \E is_path \in BOOLEAN :
                Consume([opts EXCEPT !.cmd_or_alias =
                            Edit(IF is_path THEN Right(args[2]) ELSE Left(args[2]))], 0)
    /\ UNCHANGED <<given, src, contact, cond, verdict, a_note>>

ArgAlias ==
    /\ InLoop(~ IsOption(args[1]) /\ ~ IsSort(args[1])
              /\ args[1] # cmdNew /\ args[1] # cmdEdit)
    /\ LET o == [opts EXCEPT !.cmd_or_alias = Alias(args[1])]
           params == alias_params(Tail(args))
       IN  IF Len(args) = 1 THEN Consume(o, 1)
           ELSE Consume([o EXCEPT !.alias_params =
                            IF params = <<>> THEN Nothing ELSE Some(params)],
                        Len(params) + 1)
    /\ UNCHANGED <<given, src, contact, cond, verdict, a_note>>

Return ==
    /\ fn = "args"
    /\ args = <<>>
    /\ fn' = "done"
    /\ res' = Ok(opts)
    /\ UNCHANGED <<given, src, contact, cond, verdict, args, opts, a_note>>

\* tests::args_chain_filters: for its arguments the repository asserts that
\* the options returned hold args_chain_filters_expected.
args_chain_filters ==
    /\ fn = "args"
    /\ opts = Options_default
    /\ args = args_chain_filters_args
    /\ fn' = "test"
    /\ res' = Ok([Options_default EXCEPT !.filter = args_chain_filters_expected])
    /\ UNCHANGED <<given, src, contact, cond, verdict, args, opts, a_note>>

NextArgs ==
    \/ ArgCollection
    \/ ArgConf
    \/ ArgFilter
    \/ ArgLimit
    \/ ArgSort
    \/ ArgNew
    \/ ArgEdit
    \/ ArgAlias
    \/ Return
    \/ args_chain_filters

SpecArgs == InitArgs /\ [][NextArgs]_vars

----------------------------------------------------------------------------
(* Aliases: substitute_alias puts the arguments of the command line into    *)
(* the text of an alias                                                     *)

MaxPieces == 3

\* An alias is made of pieces: plain text, a placeholder $N, an escaped
\* placeholder \$N and a lone '$'.
TextPiece(t) == [kind |-> "text", text |-> t]
ParamPiece(d) == [kind |-> "param", text |-> d]
EscapedPiece(d) == [kind |-> "escaped", text |-> d]
DollarPiece == [kind |-> "dollar", text |-> <<>>]

\* An index of 21 digits, more than a usize holds.
HugeIndex ==
    <<"1", "0", "0", "0", "0", "0", "0", "0", "0", "0", "0", "0", "0", "0", "0", "0",
      "0", "0", "0", "0", "0">>

Pieces ==
    { TextPiece(<<"N", "a", "m", "e", " ", "=", " ", "'">>), TextPiece(<<"'", " ">>), TextPiece(<<"a">>),
      ParamPiece(<<"0">>), ParamPiece(<<"1">>), ParamPiece(<<"0", "1">>), ParamPiece(<<"2">>),
      ParamPiece(HugeIndex), EscapedPiece(<<"0">>), DollarPiece }

AliasArgs == { <<<<"P", "a", "t">>>>, <<<<"P", "a", "t">>, <<"1", "2">>>>, <<<<"S", "o", "m", "e", " ", "P", "e", "r", "s", "o", "n">>, <<"$", "0">>, <<"x">>>> }

PieceText(p) ==
    CASE p.kind = "text" -> p.text
      [] p.kind = "param" -> <<"$">> \o p.text
      [] p.kind = "escaped" -> <<"\\", "$">> \o p.text
      [] p.kind = "dollar" -> <<"$">>

RECURSIVE AliasText(_)
AliasText(pieces) ==
    IF pieces = <<>> THEN <<>> ELSE PieceText(Head(pieces)) \o AliasText(Tail(pieces))

InitAlias ==
    /\ given \in { [form |-> "alias", pieces |-> ps] :
                     ps \in UNION { [1..n -> Pieces] : n \in 0..MaxPieces } }
    /\ src = AliasText(given.pieces)
    /\ args \in AliasArgs
    /\ opts = Options_default
    /\ a_note = Note_default
    /\ fn = "none"
    /\ res = NotRun
    /\ contact = NoContact
    /\ cond = All
    /\ verdict = NoVerdict

\* Whether the build checks arithmetic overflow is the build's choice.
SubstituteAlias ==
    /\ fn = "none"
    /\ fn' = "substitute_alias"
    /\ \E overflow_checks \in BOOLEAN :
           res' = substitute_alias(args, src, overflow_checks)
    /\ UNCHANGED <<given, src, contact, cond, verdict, args, opts, a_note>>

NextAlias == SubstituteAlias

SpecAlias == InitAlias /\ [][NextAlias]_vars

----------------------------------------------------------------------------
(* The aliases of a configuration: validate_aliases over a list of aliases  *)

MaxAliases == 3

FilterOption(q) == [kind |-> "filter", text |-> q]
LimitOption == [kind |-> "limit", text |-> <<"1">>]

\* The options an alias is made of.
AliasOptions ==
    { <<FilterOption(<<"'", "N", "a", "m", "e", ",", "P", "h", "o", "n", "e", "'", " ", "W", "H", "E", "R", "E", " ", "N", "a", "m", "e", " ", "=", " ", "'", "$", "0", "'">>)>>,
      <<FilterOption(<<"'", "N", "a", "m", "e", ",", "P", "h", "o", "n", "e", "'", " ", "W", "H", "E", "R", "E", " ", "N", "a", "m", "e", " ", "=", " ", "'", "$", "0", "'">>), LimitOption>>,
      <<FilterOption(<<"N", "a", "m", "e", ",", "P", "h", "o", "n", "e", "'", " ", "W", "H", "E", "R", "E", " ", "N", "a", "m", "e", " ", ">", " ", "'", "$", "0", "'">>)>>,
      <<FilterOption(<<"'", "N", "a", "m", "e", "'", " ", "W", "H", "E", "R", "E">>)>>,
      <<FilterOption(<<"N", "a", "m", "e", ",", "P", "h", "o", "n", "e", "'", " ", "W", "H", "E", "R", "E", " ", "N", "a", "m", "e", " ", ">", " ", "'", "$", "0", "'">>), FilterOption(<<"'", "N", "a", "m", "e", "'", " ", "W", "H", "E", "R", "E">>)>>,
      <<LimitOption>>,
      <<FilterOption(<<"N", "a", "m", "e", " ", "W", "H", "E", "R", "E", " ", "N", "a", "m", "e", " ", "=", " ", "'", "a", "-", "-", "b", "c", "d", "'">>)>>,
      <<FilterOption(<<"N", "a", "m", "e", " ", "W", "H", "E", "R", "E", " ", "a", " ", "=", " ", "'">>)>> }

AliasNames == << <<"f", "i", "r", "s", "t">>, <<"s", "e", "c", "o", "n", "d">>, <<"t", "h", "i", "r", "d">>, <<"f", "o", "u", "r", "t", "h">> >>

OptionText(o) ==
    IF o.kind = "filter" THEN <<"-", "-", "f", "i", "l", "t", "e", "r", " ">> \o o.text ELSE <<"-", "-", "l", "i", "m", "i", "t", " ">> \o o.text

RECURSIVE CommandsText(_)
CommandsText(options) ==
    IF options = <<>> THEN <<>>
    ELSE OptionText(Head(options))
         \o (IF Len(options) > 1 THEN <<" ">> ELSE <<>>) \o CommandsText(Tail(options))

InitValidate ==
    /\ given \in { [form |-> "aliases", aliases |-> as] :
                     as \in UNION { [1..n -> AliasOptions] : n \in 0..MaxAliases } }
    /\ src = [k \in 1..Len(given.aliases) |->
                 [alias |-> AliasNames[k], commands |-> CommandsText(given.aliases[k])]]
    /\ args = <<>>
    /\ opts = Options_default
    /\ a_note = Note_default
    /\ fn = "none"
    /\ res = NotRun
    /\ contact = NoContact
    /\ cond = All
    /\ verdict = NoVerdict

ValidateAliases ==
    /\ fn = "none"
    /\ fn' = "validate_aliases"
    /\ res' = validate_aliases(src)
    /\ UNCHANGED <<given, src, contact, cond, verdict, args, opts, a_note>>

NextValidate == ValidateAliases

SpecValidate == InitValidate /\ [][NextValidate]_vars

----------------------------------------------------------------------------
(* The readers of field lists and operators on their own                    *)

MaxNames == 3

ListNames == { <<"N", "a", "m", "e">>, <<"P", "h", "o", "n", "e">>, <<"E", "m", "p", "l", "o", "y", "e", "r", ":", "N", "a", "m", "e">>, <<"A", " ", "F", "i", "e", "l", "d">> }

QuotedRests == { <<>>, <<" ", "m", "o", "r", "e", " ", "t", "e", "x", "t">>, <<"x">>, <<" ", "W", "H", "E", "R", "E", " ", "a", " ", "=", " ", "'", "b", "'">>, <<"'">>, <<",">> }

UnquotedRests == { <<>>, <<" ", "m", "o", "r", "e", " ", "t", "e", "x", "t">>, <<" ">>, <<" ", "W", "H", "E", "R", "E", " ", "a", " ", "=", " ", "'", "b", "'">>, <<" ", " ", "t", "w", "o">> }

\* A list of field names, in quotes or not, and the text after it.
ListInputs ==
    { [form |-> "list", quote |-> q, names |-> ns, text |-> r, op |-> "none"] :
        q \in {<<c>> : c \in Quotes},
        ns \in UNION { [1..n -> ListNames] : n \in 1..MaxNames },
        r \in QuotedRests }
    \cup
    { [form |-> "list", quote |-> <<>>, names |-> ns, text |-> r, op |-> "none"] :
        ns \in { l \in UNION { [1..n -> ListNames] : n \in 1..MaxNames } : ~ HasSpace(l) },
        r \in UnquotedRests }

OperatorTexts == { <<"=">>, <<"<">>, <<"<", "=">>, <<">">>, <<">", "=">>, <<"N", "O", "T">> }

OtherTokens ==
    { <<>>, <<"=", "=">>, <<"!", "=">>, <<"=", "<">>, <<"=", ">">>, <<"<", ">">>, <<"<", "<">>, <<"n", "o", "t">>, <<"N", "o", "t">>, <<"N", "O", "T", " ">>, <<" ", "=">>, <<"=", " ">>,
      <<"a", "s", "d", "f">>, <<"A", "N", "D">>, <<"E", "q", "u", "a", "l", "T", "o">>, <<"N">>, <<"N", "O">>, <<"N", "O", "T", "E">> }

TokenInputs ==
    { [form |-> "token", quote |-> <<>>, names |-> <<>>, text |-> t, op |-> "none"] :
        t \in OperatorTexts \cup OtherTokens }

OperatorInputs ==
    { [form |-> "op", quote |-> <<>>, names |-> <<>>, text |-> <<>>, op |-> o] :
        o \in FilterOp }

ListText(g) == g.quote \o JoinComma(g.names) \o g.quote \o g.text

InitLex ==
    /\ given \in ListInputs \cup TokenInputs \cup OperatorInputs
    /\ src = IF given.form = "list" THEN ListText(given) ELSE given.text
    /\ args = <<>>
    /\ opts = Options_default
    /\ a_note = Note_default
    /\ fn = "none"
    /\ res = NotRun
    /\ contact = NoContact
    /\ cond = All
    /\ verdict = NoVerdict

ReadFields ==
    /\ fn = "none"
    /\ given.form = "list"
    /\ fn' = "read_fields"
    /\ res' = read_fields(src)
    /\ UNCHANGED <<given, src, contact, cond, verdict, args, opts, a_note>>

\* Display for FilterOp: the operator is written to src.
FormatOperator ==
    /\ fn = "none"
    /\ given.form = "op"
    /\ fn' = "fmt"
    /\ src' = FilterOp_fmt(given.op)
    /\ UNCHANGED <<given, res, contact, cond, verdict, args, opts, a_note>>

ParseOperator ==
    /\ \/ fn = "fmt"
       \/ fn = "none" /\ given.form = "token"
    /\ fn' = "from_str"
    /\ res' = FilterOp_from_str(src)
    /\ UNCHANGED <<given, src, contact, cond, verdict, args, opts, a_note>>

NextLex == ReadFields \/ FormatOperator \/ ParseOperator

SpecLex == InitLex /\ [][NextLex]_vars

----------------------------------------------------------------------------
(* A note: it is read from its text, then tags are inserted and removed.    *)
(* args holds the calls made on the note so far.                            *)

MaxLines == 2
MaxCalls == 2

HeaderLines ==
    { <<"@", "a", "\n">>,
      <<"@", "a", " ", "@", "b", "\n">>,
      <<"@", "a", " ", "@", "a", "\n">>,
      <<"@", "b", " ", " ", "@", "a", "\n">>,
      <<"[", "S", "o", "u", "r", "c", "e", ":", " ", "x", "]", "\n">>,
      <<"@", "\n">>,
      <<"@", "a", " ", "b", "\n">>,
      <<"x", "\n">>,
      <<"@", "b">> }

NoteBodies == { <<>>, <<"\n">>, <<"\n", "t", "e", "x", "t", "\n">> }

NoteTags == { <<"@", "a">>, <<"@", "b">>, <<"a">>, <<"c">> }

NoteInputs ==
    { [form |-> "note", lines |-> ls, body |-> b] :
        ls \in UNION { [1..n -> HeaderLines] : n \in 0..MaxLines }, b \in NoteBodies }

InitNote ==
    /\ given \in NoteInputs
    /\ src = collect(given.lines) \o given.body
    /\ a_note = Note_default
    /\ args = <<>>
    /\ opts = Options_default
    /\ fn = "none"
    /\ res = NotRun
    /\ contact = NoContact
    /\ cond = All
    /\ verdict = NoVerdict

Read(r) ==
    /\ res' = r
    /\ IF r.ok THEN fn' = "note" /\ a_note' = r.v
       ELSE fn' = "failed" /\ a_note' = a_note

NoteFromStr ==
    /\ fn = "none"
    /\ Read(Note_from_str(src))
    /\ UNCHANGED <<given, src, contact, cond, verdict, args, opts>>

InsertTag ==
    /\ fn = "note"
    /\ Len(args) < MaxCalls
    /\ \E tag \in NoteTags :
           /\ a_note' = insert_tag(a_note, tag)
           /\ args' = Append(args, [call |-> "insert_tag", tag |-> tag])
    /\ UNCHANGED <<given, src, fn, res, contact, cond, verdict, opts>>

RemoveTag ==
    /\ fn = "note"
    /\ Len(args) < MaxCalls
    /\ \E tag \in NoteTags :
           /\ a_note' = remove_tag(a_note, tag)
           /\ res' = Ok(removed_tag(a_note, tag))
           /\ args' = Append(args, [call |-> "remove_tag", tag |-> tag])
    /\ UNCHANGED <<given, src, fn, contact, cond, verdict, opts>>

NextNote == NoteFromStr \/ InsertTag \/ RemoveTag

SpecNote == InitNote /\ [][NextNote]_vars

----------------------------------------------------------------------------
(* Properties of the condition and query parsers (SpecParse) *)

\* The tree a comparison stands for: its value without the quotes.
ExpectLeaf(l) == Filter(l.field, l.op, l.value)

Node(c, l, r) == IF c = "And" THEN And(l, r) ELSE Or(l, r)

\* c1(L1, c2(L2, ...)): the first keyword at the root.
RECURSIVE RightNested(_, _)
RightNested(leaves, conjs) ==
    IF Len(leaves) = 1 THEN ExpectLeaf(leaves[1])
    ELSE Node(conjs[1], ExpectLeaf(leaves[1]),
              RightNested(Tail(leaves), Tail(conjs)))

\* cn(...c1(L1, L2)..., Ln+1): the last keyword at the root.
RECURSIVE LeftNested(_, _)
LeftNested(leaves, conjs) ==
    IF Len(leaves) = 1 THEN ExpectLeaf(leaves[1])
    ELSE Node(conjs[Len(conjs)],
              LeftNested(SubSeq(leaves, 1, Len(leaves) - 1),
                         SubSeq(conjs, 1, Len(conjs) - 1)),
              ExpectLeaf(leaves[Len(leaves)]))

\* Every comparison of the text parses, on its own, to its Filter.
LeavesParse(g) ==
    \A k \in 1..Len(g.leaves) :
        Condition_from_str(LeafText(g.leaves[k])) = Ok(ExpectLeaf(g.leaves[k]))

ParsedCondition == fn = "condition"
ParsedQuery == fn = "query"

\* C1 as stated: a text without parentheses that joins comparisons with two
\* or more AND/OR keywords parses to the left-nested tree, the last keyword
\* at the root ("A AND B OR C" is Or(And(A, B), C)).
C1_RightmostSplit ==
    (ParsedCondition /\ given.form = "flat" /\ Len(given.conjs) >= 2
        /\ LeavesParse(given))
    => res = Ok(LeftNested(given.leaves, given.conjs))

\* C1 amended: such a text is split at its leftmost AND/OR keyword, so when
\* each comparison parses on its own to a Filter the tree is right-nested,
\* the first keyword at the root ("A AND B OR C" is And(A, Or(B, C)),
\* "A OR B AND C" is Or(A, And(B, C))).
C1_LeftmostSplit ==
    (ParsedCondition /\ given.form = "flat" /\ Len(given.conjs) >= 2
        /\ LeavesParse(given))
    => res = Ok(RightNested(given.leaves, given.conjs))

C1_Witness ==
    /\ ParsedCondition
    /\ given.form = "flat"
    /\ given.conjs = <<"And", "Or">>
    /\ LeavesParse(given)
    /\ res.ok
    /\ res.v.t = "And"
    /\ res.v.r.t = "Or"

\* C2: "F op 'V'" with op one of = and NOT parses to Filter(F, op, V), the
\* value without its quotes, for a value of any length; it never aborts.
C2_QuotedValueUnwrapped ==
    (ParsedCondition /\ given.form = "flat" /\ Len(given.leaves) = 1)
    => res = Ok(ExpectLeaf(given.leaves[1]))

\* The tree the parentheses of a text spell out.
GroupTree(g) ==
    LET X == ExpectLeaf(g.leaves[1])
        Y == ExpectLeaf(g.leaves[2])
        Z == ExpectLeaf(g.leaves[3])
    IN  CASE g.form = "paren" -> X
          [] g.form \in {"each", "whole", "flat"} -> Node(g.conjs[1], X, Y)
          [] g.form = "right" -> Node(g.conjs[1], X, Node(g.conjs[2], Y, Z))
          [] g.form = "left" -> Node(g.conjs[2], Node(g.conjs[1], X, Y), Z)

\* C6: parentheses are transparent: "(X)" parses as "X" does; "(X) AND (Y)",
\* "(X AND Y)" and "X AND Y" all give And(X, Y) (likewise for OR);
\* "(X AND (Y AND Z))" gives And(X, And(Y, Z)) and "((X AND Y) AND Z)" gives
\* And(And(X, Y), Z).
C6_ParenthesesTransparent ==
    (/\ ParsedCondition
     /\ \/ given.form \in {"paren", "each", "whole", "right", "left"}
        \/ given.form = "flat" /\ Len(given.conjs) = 1
     /\ LeavesParse(given))
    => /\ res = Ok(GroupTree(given))
       /\ given.form = "paren" => res = Condition_from_str(LeafText(given.leaves[1]))

\* C10: a text that is only a valid field list (quoted or not, whitespace
\* after it or not), or the empty text, parses as a query that selects the
\* names in order and whose condition is All.
C10_FieldListOnly ==
    (ParsedQuery /\ given.form \in {"fields", "empty"})
    => res = Ok(Query(given.names, All))

\* The parser returned an error (it neither succeeded nor aborted).
IsError(r) == ~ r.ok /\ r # Panic

\* C11: when text that is not WHERE followed by a condition comes after the
\* select list, parse_query returns an error and no Query; a field list
\* followed by a bare "WHERE" is rejected.
C11_NoWhereIsError ==
    (ParsedQuery /\ given.form = "tail") => IsError(res)

\* C12: the value of a comparison is type-checked at parse time: a quoted
\* value is accepted with = and NOT and rejected with <, <=, >, >=; a number
\* is accepted with all six operators and stored as written; a value that is
\* neither quoted, a number nor EMPTY is rejected as an unquoted string.
C12_ValueTypeChecked ==
    (ParsedCondition /\ given.form = "value"
        /\ ~ (given.quote = <<>> /\ given.leaves[1].value = kwEMPTY))
    => LET L == given.leaves[1]
       IN  IF given.quote # <<>>
           THEN IF L.op \in {"EqualTo", "Not"}
                THEN res = Ok(Filter(L.field, L.op, L.value))
                ELSE IsError(res)
           ELSE IF L.value \in NumberTexts
                THEN res = Ok(Filter(L.field, L.op, L.value))
                ELSE res = Err("The string literal is not quoted")

\* "F op ''", the text of the same comparison with the quoted empty string.
EmptyStringText(g) ==
    Render([g EXCEPT !.quote = <<"'">>, !.leaves[1].value = <<>>])

\* C13: EMPTY is the quoted empty string: for every field F and operator op,
\* "F op EMPTY" parses as "F op ''" does, to Filter(F, op, "") for = and NOT
\* and to an error for <, <=, >, >=.
C13_EmptyIsEmptyString ==
    (ParsedCondition /\ given.form = "value" /\ given.quote = <<>>
        /\ given.leaves[1].value = kwEMPTY)
    => LET L == given.leaves[1]
       IN  /\ res = Condition_from_str(EmptyStringText(given))
           /\ IF L.op \in {"EqualTo", "Not"}
              THEN res = Ok(Filter(L.field, L.op, <<>>))
              ELSE IsError(res)

C13_Witness ==
    /\ ParsedCondition
    /\ given.form = "value"
    /\ given.quote = <<>>
    /\ given.leaves[1].value = kwEMPTY
    /\ given.leaves[1].op = "Not"
    /\ res = Ok(Filter(<<"E", "m", "p", "l", "o", "y", "e", "r", ":", "N", "a", "m", "e">>, "Not", <<>>))

\* C14: the keywords are case-insensitive: a valid query with one of WHERE,
\* AND, OR, NOT, EMPTY, REF, SPLIT (also inside REF) or REGEX written in
\* another letter case parses to the Query of the upper-case text.
C14_KeywordsCaseInsensitive ==
    (ParsedQuery /\ given.form = "keyword")
    => /\ res.ok
       /\ res = Filter_from_str(Render([given EXCEPT !.conjs = <<"upper">>]))

\* C15: "v = REF(F)" parses to Function(Ref(v, Left(F))) for every variable
\* v and every valid field name F of one or more characters; it never aborts
\* and never reports a missing closing parenthesis.
C15_RefAnyLength ==
    (ParsedCondition /\ given.form = "ref")
    => res = Ok(Function(Ref(given.leaves[1].var, Left(given.leaves[1].field))))

\* C16: "v = SPLIT(F, S)" parses to Function(Split(v, F, c)) only when S is
\* one character c between matching quotes; for every other separator
\* argument the result is an InvalidArguments error, never an abort.
C16_SplitSeparator ==
    (ParsedCondition /\ given.form = "split")
    => LET L == given.leaves[1]
       IN  IF L.open # <<>> /\ L.close = L.open /\ Len(L.body) = 1
           THEN res = Ok(Function(Split(L.var, L.field, L.body[1])))
           ELSE res = Err("InvalidArguments")

\* C17: a clause that begins with "REGEX(" parses to Regex(F, P), P without
\* its quotes, when the arguments are a field, a comma and a quoted pattern;
\* the result is InvalidArguments when there is no comma or the second
\* argument is not quoted, and MissingClosingParenthesis when the
\* parentheses never balance.
C17_RegexArguments ==
    (ParsedCondition /\ given.form = "regex")
    => LET L == given.leaves[1]
           quoted == L.open # <<>> /\ L.close = L.open
           closes == \E k \in 1..Len(L.body) : L.body[k] = ")"
       IN  IF ~ L.paren
           THEN closes \/ res = Err("MissingClosingParenthesis")
           ELSE IF ~ L.comma \/ ~ quoted
                THEN res = Err("InvalidArguments")
                ELSE res = Ok(Function(Regex(L.field, L.body)))

----------------------------------------------------------------------------
(* Properties of the condition parser: words, quoted names, text after a    *)
(* group (SpecParse)                                                        *)

\* C27: AND and OR are conjunctions only as whole words between spaces: a
\* comparison F = 'V' whose field name or value merely holds their letters
\* at the end of a word (Color, 'Command line') parses to
\* Filter(F, EqualTo, V), not to an And or Or node or an error.
C27_ConjunctionsAreWholeWords ==
    (ParsedCondition /\ given.form = "word")
    => res = Ok(ExpectLeaf(given.leaves[1]))

\* C28: a field name between quotes is read up to the matching quote: for
\* every valid field name F, names with a space included,
\* 'F' = 'V' parses to Filter(F, EqualTo, V), the name stored without quotes.
C28_QuotedFieldName ==
    (ParsedCondition /\ given.form = "quoted")
    => res = Ok(ExpectLeaf(given.leaves[1]))

RECURSIVE HasCondition(_, _)
HasCondition(tree, c) ==
    \/ tree = c
    \/ /\ tree.t \in {"And", "Or"}
       /\ HasCondition(tree.l, c) \/ HasCondition(tree.r, c)

\* C29: no part of a condition text is dropped: a group in parentheses
\* followed by text that is not a conjunction, or by text before the
\* conjunction, is an error, and every tree parsed holds the condition of
\* the group.
C29_NothingDiscarded ==
    (ParsedCondition /\ given.form = "after")
    => /\ (given.trail # <<>> \/ given.conjs[1] = "none") => IsError(res)
       /\ res.ok => HasCondition(res.v, ExpectLeaf(given.leaves[1]))

----------------------------------------------------------------------------
(* Properties of Contact::matches (SpecMatch) *)

Matched == fn = "matches"
IsFilter == cond.t = "Filter"

\* The qualifier of a field name: the text before its first ':', lowercased,
\* or "default"; and the name after it.
GroupOf(field) ==
    LET i == find(field, ":")
    IN  IF i = None THEN strDefault ELSE to_lowercase(Slice(field, 0, i))
NameOf(field) ==
    LET i == find(field, ":")
    IN  IF i = None THEN field ELSE Slice(field, i + 1, Len(field))

\* The record's lookup(group, field).
Lookup(field) == get_field_from(contact, GroupOf(field), NameOf(field))

Ordering == {"LessThan", "LessEq", "GreaterThan", "GreaterEq"}

\* C3: when the group a filter names is not in the record, the filter holds
\* exactly when its operator is Not.
C3_MissingGroupLikeMissingField ==
    (Matched /\ IsFilter /\ GroupOf(cond.field) \notin groups(contact))
    => verdict = Verdict(cond.op = "Not")

\* C4: when the group is in the record and the field is not in the group,
\* the filter holds for Not and fails for each of the other five operators,
\* whatever the value.
C4_MissingFieldOnlyNot ==
    (Matched /\ IsFilter /\ GroupOf(cond.field) \in groups(contact)
        /\ ~ Lookup(cond.field).some)
    => verdict = Verdict(cond.op = "Not")

C4_Witness ==
    /\ Matched /\ IsFilter
    /\ GroupOf(cond.field) \in groups(contact)
    /\ ~ Lookup(cond.field).some
    /\ cond.op = "Not"
    /\ verdict = Verdict(TRUE)

\* The leaves the evaluation must support: All, Filter and Regex.
RECURSIVE Evaluable(_)
Evaluable(c) ==
    CASE c.t \in {"All", "Filter"} -> TRUE
      [] c.t = "Function" -> c.f.t = "Regex"
      [] c.t \in {"And", "Or"} -> Evaluable(c.l) /\ Evaluable(c.r)

\* C5: evaluation never aborts on a tree of All, Filter and Regex leaves,
\* and a Regex leaf on a field the record lacks is false.
C5_EvaluationTotal ==
    (Matched /\ Evaluable(cond))
    => /\ ~ verdict.abort
       /\ (cond.t = "Function" /\ ~ Lookup(cond.f.field).some)
            => verdict = Verdict(FALSE)

\* The text of each number of the model, in tenths.
Tenths ==
    (<<"1", "2", "3">> :> 1230) @@ (<<"2", "0", "0">> :> 2000)
        @@ (<<"1", ".", "5">> :> 15) @@ (<<"-", "5">> :> (0 - 50))

IsNumber(s) == s \in DOMAIN Tenths

Compare(op, a, b) ==
    CASE op = "LessThan" -> a < b
      [] op = "LessEq" -> a <= b
      [] op = "GreaterThan" -> a > b
      [] op = "GreaterEq" -> a >= b

\* C7: on a field the record has, <, <=, > and >= compare the stored value
\* with the filter's value as numbers, and are false when either of the two
\* is no number.
C7_OrderingIsNumeric ==
    (Matched /\ IsFilter /\ cond.op \in Ordering /\ Lookup(cond.field).some)
    => LET a == Lookup(cond.field).v
       IN  verdict = Verdict(IF IsNumber(a) /\ IsNumber(cond.value)
                             THEN Compare(cond.op, Tenths[a], Tenths[cond.value])
                             ELSE FALSE)

C7_Witness ==
    /\ Matched /\ IsFilter
    /\ cond.op = "GreaterEq"
    /\ Lookup(cond.field) = Some(<<"2", "0", "0">>)
    /\ cond.value = <<"1", ".", "5">>
    /\ verdict = Verdict(TRUE)

\* C8: matches is the boolean reading of the tree: All is true, And(l, r) is
\* matches(l) and matches(r), Or(l, r) is matches(l) or matches(r).
C8_BooleanInterpretation ==
    (Matched /\ Evaluable(cond))
    => /\ cond.t = "All" => verdict = Verdict(TRUE)
       /\ cond.t = "And" =>
            /\ ~ verdict.abort
            /\ verdict.v = (matches(contact, cond.l).v /\ matches(contact, cond.r).v)
       /\ cond.t = "Or" =>
            /\ ~ verdict.abort
            /\ verdict.v = (matches(contact, cond.l).v \/ matches(contact, cond.r).v)

\* The contact without its groups other than g.
OnlyGroup(c, g) == [info |-> [x \in (DOMAIN c.info \cap {g}) |-> c.info[x]]]

\* C9: the group read is the qualifier before the first ':', compared
\* without regard to case, or "default" without a qualifier: an = filter
\* holds exactly when the field of that group has the value, and no other
\* group of the record changes the result of a filter.
C9_GroupQualifier ==
    (Matched /\ IsFilter)
    => LET g == GroupOf(cond.field)
       IN  /\ verdict = matches(OnlyGroup(contact, g), cond)
           /\ (g \in groups(contact) /\ cond.op = "EqualTo")
                => verdict.v = (/\ NameOf(cond.field) \in DOMAIN contact.info[g][1].map
                                /\ contact.info[g][1].map[NameOf(cond.field)] = cond.value)

C9_Witness ==
    /\ Matched /\ IsFilter
    /\ cond = Filter(<<"E", "m", "p", "l", "o", "y", "e", "r", ":", "N", "a", "m", "e">>, "EqualTo", <<"A", "c", "m", "e">>)
    /\ <<"e", "m", "p", "l", "o", "y", "e", "r">> \in groups(contact)
    /\ contact.info[strDefault][1].map[strName] = <<"P", "a", "t">>
    /\ verdict = Verdict(TRUE)

----------------------------------------------------------------------------
(* Properties of the command line (SpecArgs) *)

\* The command line is --filter given k times and nothing else.
FilterChain ==
    /\ given.form = "args"
    /\ given.items # <<>>
    /\ \A k \in 1..Len(given.items) :
           Len(given.items[k]) = 2 /\ given.items[k][1] = optFilter

\* The query each --filter argument parses to on its own.
ParsedFilter(k) == Filter_from_str(given.items[k][2])

AllFiltersParse == \A k \in 1..Len(given.items) : ParsedFilter(k).ok

\* And(...And(And(c1, c2), c3)..., ck)
RECURSIVE AndAll(_)
AndAll(conds) ==
    IF Len(conds) = 1 THEN conds[1]
    ELSE And(AndAll(SubSeq(conds, 1, Len(conds) - 1)), conds[Len(conds)])

\* The comparisons and functions of a condition, from left to right.
RECURSIVE LeavesOf(_)
LeavesOf(c) ==
    IF c.t \in {"And", "Or"} THEN LeavesOf(c.l) \o LeavesOf(c.r) ELSE <<c>>

RECURSIVE ConcatAll(_)
ConcatAll(seqs) ==
    IF seqs = <<>> THEN <<>> ELSE Head(seqs) \o ConcatAll(Tail(seqs))

\* The options are returned: by new_from_arguments, or as the repository's
\* test states them.
Returned == fn \in {"done", "test"} /\ res.ok

\* C18: --filter given k times yields one Query whose condition is the
\* left-nested And of the k parsed conditions in the order of the arguments;
\* every sub-condition of every argument is still in the tree, in its
\* original order.
C18_ChainedFiltersAnded ==
    (fn \in {"done", "test"} /\ FilterChain /\ AllFiltersParse)
    => LET conds == [k \in 1..Len(given.items) |-> ParsedFilter(k).v.condition]
       IN  /\ res.ok
           /\ res.v.filter.some
           /\ res.v.filter.v.condition = AndAll(conds)
           /\ LeavesOf(res.v.filter.v.condition)
                  = ConcatAll([k \in 1..Len(conds) |-> LeavesOf(conds[k])])

C18_Witness ==
    /\ fn = "done"
    /\ FilterChain
    /\ Len(given.items) = 3
    /\ res.ok
    /\ res.v.filter.some
    /\ res.v.filter.v.condition.t = "And"
    /\ res.v.filter.v.condition.l.t = "And"
    /\ res.v.filter.v.condition.l.l = ParsedFilter(1).v.condition
    /\ res.v.filter.v.condition.l.r = ParsedFilter(2).v.condition
    /\ res.v.filter.v.condition.r = ParsedFilter(3).v.condition
    /\ res.v.filter.v.condition.r.t = "Or"

\* C19: the select list of a merged Query is the concatenation of the select
\* lists with the duplicates removed: every field selected by one of the
\* queries is selected by the merged query, exactly once.
C19_MergedSelect ==
    (Returned /\ FilterChain /\ Len(given.items) >= 2 /\ AllFiltersParse)
    => LET all == ConcatAll([k \in 1..Len(given.items) |-> ParsedFilter(k).v.select])
           select == res.v.filter.v.select
       IN  /\ \A k \in 1..Len(all) :
                  Cardinality({j \in 1..Len(select) : select[j] = all[k]}) = 1
           /\ \A j \in 1..Len(select) : \E k \in 1..Len(all) : all[k] = select[j]
           /\ select = Dedup(all)

\* A step that is one pass of the loop of new_from_arguments.
LoopPass == fn = "args" /\ args # <<>> /\ fn' \in {"args", "done"}

\* C30: Options::new_from_arguments terminates: every pass of its loop
\* returns an error or consumes at least one argument, whatever the option
\* or command (new, edit and an alias with parameters included).
C30_EveryPassConsumes ==
    [][LoopPass => (fn' = "done" /\ ~ res'.ok) \/ Len(args') < Len(args)]_vars

----------------------------------------------------------------------------
(* Properties of substitute_alias (SpecAlias) *)

Substituted == fn = "substitute_alias"

\* Every '$' of the alias is a placeholder or escaped, and every placeholder
\* names an argument that was given.
IndexExists(p, sargs) ==
    Len(strip_zeros(p.text)) <= 9 /\ DigitsValue(p.text) < Len(sargs)

Failing(p, sargs) ==
    p.kind = "dollar" \/ (p.kind = "param" /\ ~ IndexExists(p, sargs))

AllIndexesExist ==
    \A k \in 1..Len(given.pieces) : ~ Failing(given.pieces[k], args)

\* The alias with each placeholder replaced by its argument.
RECURSIVE Expanded(_, _)
Expanded(pieces, sargs) ==
    IF pieces = <<>> THEN <<>>
    ELSE (IF Head(pieces).kind = "param"
          THEN sargs[DigitsValue(Head(pieces).text) + 1]
          ELSE PieceText(Head(pieces))) \o Expanded(Tail(pieces), sargs)

\* C20: when every index referred to exists, substitute_alias returns the
\* alias with each unescaped placeholder $N, wherever it stands (the very
\* start of the text included), replaced by args[N], and all other text,
\* escaped placeholders included, as it was.
C20_PlaceholdersReplaced ==
    (Substituted /\ AllIndexesExist)
    => res.ok /\ res.v.alias = Expanded(given.pieces, args)

\* The first piece that cannot be substituted.
FirstFailing ==
    given.pieces[CHOOSE k \in 1..Len(given.pieces) :
                     /\ Failing(given.pieces[k], args)
                     /\ \A j \in 1..(k - 1) : ~ Failing(given.pieces[j], args)]

\* C21: when an unescaped placeholder names an index that is not below the
\* number of arguments, substitute_alias returns MissingValue with that index,
\* and when a '$' has no digit after it, ParseError; in both cases no text is
\* returned, however many placeholders before it were valid.
C21_MissingOrInvalidIsError ==
    (Substituted /\ ~ AllIndexesExist)
    => IF FirstFailing.kind = "dollar"
       THEN res = Err("ParseError")
       ELSE res = MissingValue(strip_zeros(FirstFailing.text))

\* The indexes the unescaped placeholders of the alias refer to.
ReferencedIndexes ==
    { DigitsValue(given.pieces[k].text) :
        k \in { j \in 1..Len(given.pieces) : given.pieces[j].kind = "param" } }

\* C22: the count substitute_alias returns is the number of arguments read:
\* it is at most args.len(), arguments no placeholder refers to are not
\* counted, and an argument referred to several times is counted once.
C22_CountIsArgumentsRead ==
    (Substituted /\ res.ok)
    => /\ res.v.count = Cardinality(ReferencedIndexes)
       /\ res.v.count <= Len(args)

----------------------------------------------------------------------------
(* Properties of validate_aliases (SpecValidate) *)

Validated == fn = "validate_aliases"

\* The names of the aliases of the --filter options whose query does not
\* parse, one per such option, in the order of the configuration.
RECURSIVE BrokenOptions(_, _)
BrokenOptions(alias, options) ==
    IF options = <<>> THEN <<>>
    ELSE (IF Head(options).kind = "filter" /\ ~ Filter_from_str(Head(options).text).ok
          THEN <<alias>> ELSE <<>>) \o BrokenOptions(alias, Tail(options))

RECURSIVE BrokenFrom(_)
BrokenFrom(k) ==
    IF k > Len(given.aliases) THEN <<>>
    ELSE BrokenOptions(AliasNames[k], given.aliases[k]) \o BrokenFrom(k + 1)

\* C23: validate_aliases looks at every alias: it returns Ok exactly when the
\* query of every --filter option of every alias parses, and otherwise one
\* error for each --filter option whose query does not parse.
C23_AllAliasesChecked ==
    Validated
    => IF BrokenFrom(1) = <<>> THEN res = Ok(<<>>)
       ELSE /\ ~ res.ok
            /\ res.err = "InvalidValue"
            /\ [k \in 1..Len(res.errors) |-> res.errors[k].alias] = BrokenFrom(1)

----------------------------------------------------------------------------
(* Properties of the readers (SpecLex) *)

FieldsRead == fn = "read_fields"

FirstSpace == IF find(src, " ") = None THEN Len(src) ELSE find(src, " ")

\* C24: of a quoted list of valid field names followed by any text,
\* read_fields returns the names in order and consumes the quoted span, both
\* quotes included; of an unquoted list it returns the names before the first
\* space and consumes up to that space, or the whole input without one.
C24_ReadFieldsCounts ==
    FieldsRead
    => /\ res.ok
       /\ res.fields = given.names
       /\ res.len = IF given.quote # <<>>
                    THEN Len(JoinComma(given.names)) + 2
                    ELSE FirstSpace

C24_Witness ==
    /\ FieldsRead
    /\ given.quote = <<"'">>
    /\ Len(given.names) = 3
    /\ given.text = <<" ", "m", "o", "r", "e", " ", "t", "e", "x", "t">>
    /\ res.ok
    /\ res.len = Len(src) - Len(given.text)

OperatorParsed == fn = "from_str"

\* C25: parsing the text an operator is written as gives the operator back,
\* for each of the six operators, and every token other than =, <, <=, >, >=
\* and NOT is rejected with an error.
C25_OperatorRoundTrip ==
    OperatorParsed
    => /\ given.form = "op" => res = Ok(given.op)
       /\ src \notin OperatorTexts => (~ res.ok /\ res # Panic)

C25_Witness ==
    /\ OperatorParsed
    /\ given.form = "op"
    /\ given.op = "LessEq"
    /\ src = <<"<", "=">>
    /\ res = Ok("LessEq")

----------------------------------------------------------------------------
(* Properties of a Note (SpecNote) *)

NoDuplicates(v) == \A i, j \in 1..Len(v) : i # j => v[i] # v[j]

LastCall == args[Len(args)]

\* C26: a Note stores each tag once: after Note::from_str, whatever the
\* header, and after any calls of insert_tag and remove_tag, no tag is twice
\* in the list, so that contains_tag(t) is false right after remove_tag(t).
C26_TagsStoredOnce ==
    fn = "note"
    => /\ NoDuplicates(a_note.tags)
       /\ (args # <<>> /\ LastCall.call = "remove_tag")
              => ~ contains_tag(a_note, LastCall.tag)

====
